---- MODULE Spec2Model ----
(***************************************************************************)
(* Nail-art reservation backend (Google Apps Script): the booking commit   *)
(* protocol (handleSaveBooking), the availability matcher and the index    *)
(* caches.                                                                 *)
(*                                                                         *)
(* Instants are seconds since 00:00 of day 0 in the Asia/Taipei zone; a    *)
(* JavaScript Invalid Date is the value NaN, every comparison with which   *)
(* is false.  The script time zone is taken to be Asia/Taipei, the zone    *)
(* SYSTEM_CONFIG.TIMEZONE names.                                           *)
(***************************************************************************)
EXTENDS Integers, Sequences, FiniteSets, TLC

VARIABLES
    pc,                 \* per request: position inside handleSaveBooking
    booking,            \* per request: the payload given to handleSaveBooking
    result,             \* per request: what handleSaveBooking returned or threw
    lockHolder,         \* LockService document lock: the request holding it
    bookingSheet,       \* booking sheet: sequence of rows
    customerSheet,      \* customer sheet: sequence of rows
    calendar,           \* booking calendar: set of API events
    customerIndexMap,   \* cacheService.gs customerIndexMap (Null or a Map)
    bookingIndexMap,    \* cacheService.gs bookingIndexMap (Null or a Map)
    clock,              \* logical time of "new Date()" at a persist
    trace,              \* per request: what the commit did (history)
    mQuery,             \* matcher check: the queried slot
    mEvents,            \* matcher check: events in the booking calendar
    mGiven,             \* matcher check: events handed to the matcher
    mResult,            \* matcher check: the AvailabilityRecord returned
    srcPc,              \* getEvents: position inside AdvancedCalendarService
    queryDays,          \* getEvents: analyzeQueryComplexity's queryDays
    pageCount,          \* executePaginatedQuery: pageCount
    pageToken,          \* executePaginatedQuery: pageToken is set
    allEvents,          \* executePaginatedQuery: number of events gathered
    listCalls,          \* getEvents: Calendar.Events.list calls made (history)
    transports,         \* getEvents: how each transport answered (history)
    srcResult,          \* getEvents: what it returned or threw
    xTitle,             \* extractor: the event title given (a token sequence)
    xStart,             \* extractor: the eventStartTime given (Null: none)
    xEvents,            \* extractor: the source-calendar events of one day
    xResult,            \* extractor: what the extracting function returned
    bStart,             \* batch query: the startDate string given
    bEnd,               \* batch query: the endDate string given
    bEnv,               \* batch query: configuration, transports, injected failure
    bSource,            \* batch query: events in the source calendar
    bBooking,           \* batch query: events in the booking calendar
    bFetches,           \* batch query: getEvents calls made (history)
    bResult,            \* batch query: what the handler returned
    dBody,              \* dispatcher: how the request carries its data
    dAction,            \* dispatcher: the request's action name
    dToken,             \* dispatcher: the request's csrfToken field
    dAccepted,          \* dispatcher: whether the handler accepts the request's data
    dHandler,           \* dispatcher: the handler the request was dispatched to
    dWrites,            \* dispatcher: the stores written while handling the request
    dResponse,          \* dispatcher: the response returned
    currentTime,        \* wall clock: the instant new Date() gives while a commit runs
    rPc,                \* per registration: position inside handleSaveCustomer
    rCustomer,          \* per registration: the customer given to handleSaveCustomer
    rFound,             \* per registration: what the lookups of the customer found
    rResult,            \* per registration: what handleSaveCustomer returned or threw
    sPc,                \* deletion sync: position inside syncCalendarDeletions
    sCancelled,         \* deletion sync: ids of the cancelled events fetched
    sDeleted,           \* deletion sync: totalDeletedCount
    caches,             \* cache layer: per cache, the stored value and its timestamp
    backing,            \* cache layer: generation of the data behind the caches
    cacheNow,           \* cache layer: Date.now(), in milliseconds
    lastRead,           \* cache layer: the latest cache read and whether it was a hit
    cPc,                \* client: the position of the confirm-button handler
    cBooking,           \* client: the booking being confirmed
    cSent,              \* client: the requests sent so far, with what became of each
    cCommits,           \* client: what the backend commits of this booking returned
    cLocal,             \* client: bookings kept in local storage
    cDialog             \* client: what the user is shown

vars == <<pc, booking, result, lockHolder, bookingSheet, customerSheet, calendar,
          customerIndexMap, bookingIndexMap, clock, trace, mQuery, mEvents, mGiven, mResult,
          srcPc, queryDays, pageCount, pageToken, allEvents, listCalls, transports, srcResult,
          xTitle, xStart, xEvents, xResult,
          bStart, bEnd, bEnv, bSource, bBooking, bFetches, bResult,
          dBody, dAction, dToken, dAccepted, dHandler, dWrites, dResponse,
          currentTime,
          rPc, rCustomer, rFound, rResult,
          sPc, sCancelled, sDeleted,
          caches, backing, cacheNow, lastRead,
          cPc, cBooking, cSent, cCommits, cLocal, cDialog>>

commitVars == <<pc, booking, result, lockHolder, bookingSheet, customerSheet, calendar,
                customerIndexMap, bookingIndexMap, clock, trace>>

matcherVars == <<mQuery, mEvents, mGiven, mResult>>

sourceVars == <<srcPc, queryDays, pageCount, pageToken, allEvents, listCalls,
                transports, srcResult>>

extractVars == <<xTitle, xStart, xEvents, xResult>>

batchVars == <<bStart, bEnd, bEnv, bSource, bBooking, bFetches, bResult>>

dispatchVars == <<dBody, dAction, dToken, dAccepted, dHandler, dWrites, dResponse>>

clockVars == <<currentTime>>

registerVars == <<rPc, rCustomer, rFound, rResult>>

syncVars == <<sPc, sCancelled, sDeleted>>

cacheVars == <<caches, backing, cacheNow, lastRead>>

clientVars == <<cPc, cBooking, cSent, cCommits, cLocal, cDialog>>

\* What a step of one component leaves alone: the other components' state.
outsideCommit == <<matcherVars, sourceVars, extractVars, batchVars, dispatchVars, clockVars, registerVars, syncVars, cacheVars, clientVars>>
outsideMatcher == <<commitVars, sourceVars, extractVars, batchVars, dispatchVars, clockVars, registerVars, syncVars, cacheVars, clientVars>>
outsideSource == <<commitVars, matcherVars, extractVars, batchVars, dispatchVars, clockVars, registerVars, syncVars, cacheVars, clientVars>>
outsideExtract == <<commitVars, matcherVars, sourceVars, batchVars, dispatchVars, clockVars, registerVars, syncVars, cacheVars, clientVars>>
outsideBatch == <<commitVars, matcherVars, sourceVars, extractVars, dispatchVars, clockVars, registerVars, syncVars, cacheVars, clientVars>>
outsideDispatch == <<commitVars, matcherVars, sourceVars, extractVars, batchVars, clockVars, registerVars, syncVars, cacheVars, clientVars>>
outsideRegister == <<matcherVars, sourceVars, extractVars, batchVars, dispatchVars, clockVars, syncVars, cacheVars, clientVars>>
outsideSync == <<matcherVars, sourceVars, extractVars, batchVars, dispatchVars, clockVars, registerVars, cacheVars, clientVars>>
outsideCache == <<commitVars, matcherVars, sourceVars, extractVars, batchVars, dispatchVars, clockVars, registerVars, syncVars, clientVars>>
outsideClient == <<commitVars, matcherVars, sourceVars, extractVars, batchVars, dispatchVars, clockVars, registerVars, syncVars, cacheVars>>

Null == "null"
NaN == -1

\* ------------------------------------------------------------------ bounds
NumRequests == 2        \* concurrent saveBooking requests
NumDays == 3            \* calendar days 0 .. NumDays-1 of the matcher check
MaxEvents == 2          \* events in the booking calendar of the matcher check

\* ------------------------------------------------------- program constants
defaultDuration == 1            \* CALENDAR_CONFIG.defaultDuration (hours)
businessStartHour == 8          \* CALENDAR_CONFIG.businessHours.start
businessEndHour == 22           \* CALENDAR_CONFIG.businessHours.end
SecondsPerHour == 3600
SecondsPerDay == 86400

\* ------------------------------------------------------------ Date values
\* Date comparison: false as soon as one side is an Invalid Date.
DateLess(a, b) == a # NaN /\ b # NaN /\ a < b

\* new Date(dateStr + 'T' + HH + ':' + MM + ':' + SS + '+08:00'): hour 24 is
\* accepted only as 24:00:00, any other out-of-range field is an Invalid Date.
IsoDate(day, hour, minute, second) ==
    IF hour \in 0..23 /\ minute \in 0..59 /\ second \in 0..59
      THEN day * SecondsPerDay + hour * SecondsPerHour + minute * 60 + second
      ELSE IF hour = 24 /\ minute = 0 /\ second = 0
        THEN (day + 1) * SecondsPerDay
        ELSE NaN

\* getTaipeiDateString: the Taipei calendar day of an instant.
getTaipeiDateString(t) == t \div SecondsPerDay

\* ----------------------------------------------------- calendar API events
\* An API event is [id, allDay, start, end]: for a timed event start/end are
\* instants (start.dateTime, end.dateTime); for an all-day event they are
\* days (start.date, and end.date, the day after the last day covered).

\* convertToCompatibleEvents: getStartTime() / getEndTime() of the wrapper.
getStartTime(e) == IF e.allDay THEN IsoDate(e.start, 0, 0, 0) ELSE e.start
getEndTime(e) == IF e.allDay THEN IsoDate(e.end, 23, 59, 59) ELSE e.end

\* The span Calendar.Events.list filters on (timeMin < end, start < timeMax).
ApiStart(e) == IF e.allDay THEN e.start * SecondsPerDay ELSE e.start
ApiEnd(e) == IF e.allDay THEN e.end * SecondsPerDay ELSE e.end

\* The days an event covers.
DaysCovered(e) ==
    IF e.allDay THEN e.start .. (e.end - 1)
    ELSE {d \in 0..(NumDays + 1) :
            d * SecondsPerDay < e.end /\ e.start < (d + 1) * SecondsPerDay}

\* --------------------------------------------------- availability matcher
\* checkSingleTimeSlotAvailability: slot window of a time slot <<hour, minute>>.
SlotStart(day, slot) == IsoDate(day, slot[1], slot[2], 0)
SlotEnd(day, slot) == IsoDate(day, slot[1] + defaultDuration, slot[2], 0)

\* The loop body's test: the event is counted as a conflict.
CountsAsConflict(e, day, slot) ==
    /\ getTaipeiDateString(getStartTime(e)) = day
    /\ DateLess(SlotStart(day, slot), getEndTime(e))
    /\ DateLess(getStartTime(e), SlotEnd(day, slot))

\* checkSingleTimeSlotAvailability / ...FromEvents: the AvailabilityRecord.
checkSingleTimeSlotAvailability(events, slot, day) ==
    LET conflicting == {e \in events : CountsAsConflict(e, day, slot)}
    IN [available |-> conflicting = {},
        conflictCount |-> Cardinality(conflicting),
        conflictingEvents |-> conflicting]

\* ------------------------------------------------------ calendar event source
\* getOptimizedQueryRange: the business-hours window of one day
\* (enableBusinessHoursFilter is true): 08:00:00 .. 22:00:59, clipped to the day.
getOptimizedQueryRange(day) ==
    LET businessStartTime == IsoDate(day, businessStartHour, 0, 0)
        businessEndTime == IsoDate(day, businessEndHour, 0, 59)
        dayStart == IsoDate(day, 0, 0, 0)
        dayEnd == IsoDate(day, 23, 59, 59)
    IN [startTime |-> IF businessStartTime < dayStart THEN dayStart ELSE businessStartTime,
        endTime |-> IF businessEndTime > dayEnd THEN dayEnd ELSE businessEndTime]

\* getOptimizedQueryRangeBatch: one window for the whole range d1 .. d2.
getOptimizedQueryRangeBatch(d1, d2) ==
    [startTime |-> IsoDate(d1, businessStartHour, 0, 0),
     endTime |-> IsoDate(d2, businessEndHour, 0, 0)]

\* Calendar.Events.list(calendarId, {timeMin, timeMax, singleEvents}): the
\* events ending after timeMin and starting before timeMax.
EventsList(events, range) ==
    {e \in events : ApiEnd(e) > range.startTime /\ ApiStart(e) < range.endTime}

\* checkTimeSlotsAvailability for one slot: fetch the day's window, then match.
checkTimeSlotsAvailability(events, day, slot) ==
    checkSingleTimeSlotAvailability(EventsList(events, getOptimizedQueryRange(day)), slot, day)

\* handleBatchCheckTimeSlotAvailability, booking side: bookingsByDate[day] of
\* the events fetched once for d1 .. d2.
bookingsByDate(events, d1, d2, day) ==
    {e \in EventsList(events, getOptimizedQueryRangeBatch(d1, d2)) :
        /\ getTaipeiDateString(getStartTime(e)) >= d1
        /\ getTaipeiDateString(getStartTime(e)) <= d2
        /\ getTaipeiDateString(getStartTime(e)) = day}

\* ------------------------------------------------- matcher check: the inputs
Days == 0..(NumDays - 1)
SlotTimes == {<<0, 0>>, <<10, 0>>, <<10, 30>>, <<22, 0>>, <<23, 0>>, <<23, 30>>}
EventStartTimes == {0, 9 * 3600, 9 * 3600 + 1800, 10 * 3600, 11 * 3600, 23 * 3600}
EventDurations == {SecondsPerHour, 25 * SecondsPerHour}

TimedEvents ==
    {[id |-> <<d, t, len>>, allDay |-> FALSE,
      start |-> d * SecondsPerDay + t, end |-> d * SecondsPerDay + t + len] :
        d \in Days, t \in EventStartTimes, len \in EventDurations}

AllDayEvents ==
    {[id |-> <<d, 0, len>>, allDay |-> TRUE, start |-> d, end |-> d + len] :
        d \in Days, len \in 1..2}

CalendarEvents == TimedEvents \cup AllDayEvents

\* The calendars holding at most n events.
RECURSIVE CalendarsUpTo(_)
CalendarsUpTo(n) ==
    IF n = 0 THEN {{}}
    ELSE LET smaller == CalendarsUpTo(n - 1)
         IN smaller \cup {es \cup {e} : es \in smaller, e \in CalendarEvents}

EventSets == CalendarsUpTo(MaxEvents)

NoQuery == [day |-> 0, slot |-> <<0, 0>>]
NoAnswer == [path |-> "none",
             status |-> [available |-> FALSE, conflictCount |-> -1, conflictingEvents |-> {}]]

MatcherIdle ==
    /\ mQuery = NoQuery
    /\ mEvents = {}
    /\ mGiven = {}
    /\ mResult = NoAnswer

MatcherInit ==
    /\ mQuery \in [day : Days, slot : SlotTimes]
    /\ mEvents \in EventSets
    /\ mGiven = {}
    /\ mResult = NoAnswer

\* handleCheckTimeSlotAvailability(date, [slot]) on the booking calendar.
CheckTimeSlot ==
    /\ mResult = NoAnswer
    /\ mGiven' = EventsList(mEvents, getOptimizedQueryRange(mQuery.day))
    /\ mResult' = [path |-> "single",
                    status |-> checkSingleTimeSlotAvailability(mGiven', mQuery.slot, mQuery.day)]
    /\ UNCHANGED <<mQuery, mEvents>>
    /\ UNCHANGED outsideMatcher

\* handleBatchCheckTimeSlotAvailability over the whole range, read at the
\* queried day and slot (checkSingleTimeSlotAvailabilityFromEvents).
BatchCheckTimeSlot ==
    /\ mResult = NoAnswer
    /\ mGiven' = bookingsByDate(mEvents, 0, NumDays - 1, mQuery.day)
    /\ mResult' = [path |-> "batch",
                    status |-> checkSingleTimeSlotAvailability(mGiven', mQuery.slot, mQuery.day)]
    /\ UNCHANGED <<mQuery, mEvents>>
    /\ UNCHANGED outsideMatcher

\* ------------------------------------------------------------ tabular store
\* Sheet row numbers count the header row: data row j of a sheet is row j + 1.
HeaderRows == 1
getLastRow(sheet) == Len(sheet) + HeaderRows
RowAt(sheet, rowIndex) == sheet[rowIndex - HeaderRows]

\* buildCustomerIndex: Map from a LINE user id, and from "phone_" + phone, to
\* the row number and a copy of the row; a later row overwrites an earlier one.
CustomerKeys(row) ==
    (IF row.lineUserId # "" THEN {<<"line", row.lineUserId>>} ELSE {})
      \cup (IF row.phone # "" THEN {<<"phone", row.phone>>} ELSE {})

LastRowWithKey(sheet, k) ==
    CHOOSE j \in 1..Len(sheet) :
        /\ k \in CustomerKeys(sheet[j])
        /\ \A i \in (j + 1)..Len(sheet) : k \notin CustomerKeys(sheet[i])

buildCustomerIndex(sheet) ==
    [k \in UNION {CustomerKeys(sheet[j]) : j \in 1..Len(sheet)} |->
        [rowIndex |-> LastRowWithKey(sheet, k) + HeaderRows,
         customerData |-> sheet[LastRowWithKey(sheet, k)]]]

NoIndex == [cached |-> FALSE, map |-> <<>>]
Cached(m) == [cached |-> TRUE, map |-> m]

\* findCustomerByPhone: the cache after the call (rebuilt when it is null) ...
CustomerIndexAfterFind(index, sheet) ==
    IF index.cached THEN index ELSE Cached(buildCustomerIndex(sheet))

\* ... and the row number returned (-1 when absent).
findCustomerByPhone(index, sheet, phone) ==
    LET m == CustomerIndexAfterFind(index, sheet).map
    IN IF phone = "" THEN -1
       ELSE IF <<"phone", phone>> \in DOMAIN m THEN m[<<"phone", phone>>].rowIndex
       ELSE -1

\* buildBookingIndex: Map from LINE user id to that user's booking rows, in
\* sheet order; rows without a LINE user id are left out.
RowsOf(sheet, u) == SelectSeq(sheet, LAMBDA r : r.lineUserId = u)

buildBookingIndex(sheet) ==
    [u \in {sheet[j].lineUserId : j \in 1..Len(sheet)} \ {""} |-> RowsOf(sheet, u)]

\* getBookingsFromIndex: the cache after the call, and the list returned.
BookingIndexAfterGet(index, sheet) ==
    IF index.cached THEN index ELSE Cached(buildBookingIndex(sheet))

getBookingsFromIndex(index, sheet, u) ==
    LET m == BookingIndexAfterGet(index, sheet).map
    IN IF u \in DOMAIN m THEN m[u] ELSE <<>>

\* updateCustomerBookingInfo: the customer sheet after the call.
updateCustomerBookingInfo(index, sheet, phone, bookingTime) ==
    LET rowIndex == findCustomerByPhone(index, sheet, phone)
    IN IF rowIndex > 0
         THEN [sheet EXCEPT ![rowIndex - HeaderRows] =
                 [@ EXCEPT !.lastBooking = bookingTime,
                           !.totalBookings = @ + 1]]
         ELSE sheet

\* ------------------------------------------------------- booking payloads
RegisteredPhone == "0911111111"
UnknownPhone == "0922222222"
BookingDate == "2025-07-15"

\* /^\d{4}-\d{2}-\d{2}$/ on the date strings of the model.
DATE_REGEX(date) == date \in {"2025-07-15"}
\* SYSTEM_CONFIG.TIME_FORMAT_REGEX on the time strings of the model.
TIME_FORMAT_REGEX(time) == time \in {"14:00", "23:00"}

\* timeSlot.split(':').map(Number)
ParseTime(time) == IF time = "14:00" THEN <<14, 0>> ELSE <<23, 0>>
\* The day number of a date string (2025-07-15 is day 1 of the model).
DayOf(date) == 1
\* formattedDate: year, month and day without leading zeros, each followed by
\* its unit (written Y, M, D here).
FormatDate(date) == IF date = "2025-07-15" THEN "2025Y7M15D" ELSE date

ValidPayloads ==
    { [customerName |-> "Amy", phone |-> RegisteredPhone, date |-> BookingDate, time |-> "14:00"],
      [customerName |-> "Amy", phone |-> UnknownPhone, date |-> BookingDate, time |-> "14:00"],
      [customerName |-> "Amy", phone |-> RegisteredPhone, date |-> BookingDate, time |-> "23:00"] }

InvalidPayloads ==
    { [customerName |-> "", phone |-> RegisteredPhone, date |-> BookingDate, time |-> "14:00"],
      [customerName |-> "Amy", phone |-> RegisteredPhone, date |-> BookingDate, time |-> ""],
      [customerName |-> "Amy", phone |-> RegisteredPhone, date |-> "2025/07/15", time |-> "14:00"],
      [customerName |-> "Amy", phone |-> RegisteredPhone, date |-> BookingDate, time |-> "25:00"] }

Payloads == ValidPayloads \cup InvalidPayloads

requiredFields == <<"customerName", "phone", "date", "time">>
MissingRequiredField(b) == \E i \in 1..Len(requiredFields) : b[requiredFields[i]] = ""

\* Lines 35-55 of handleSaveBooking: the payload passes validation.
PayloadValid(b) ==
    /\ ~ MissingRequiredField(b)
    /\ DATE_REGEX(b.date)
    /\ TIME_FORMAT_REGEX(b.time)

\* ------------------------------------------------- commit protocol: state
Requests == 1..NumRequests

NoResult == [kind |-> "none", success |-> FALSE, error |-> ""]
NoTrace == [fetch |-> "none", given |-> {}, lockHeld |-> FALSE, available |-> FALSE,
            row |-> 0, total |-> 0, link |-> "none", email |-> "none", line |-> "none"]

CommitInit ==
    /\ pc = [p \in Requests |-> "Idle"]
    /\ booking = [p \in Requests |-> CHOOSE b \in ValidPayloads : TRUE]
    /\ result = [p \in Requests |-> NoResult]
    /\ lockHolder = 0                     \* 0: the lock is free
    /\ bookingSheet = <<>>
    /\ customerSheet = << [lineUserId |-> "U1", name |-> "Amy", phone |-> RegisteredPhone,
                           lastBooking |-> 0, totalBookings |-> 0] >>
    /\ calendar = {}
    /\ customerIndexMap = NoIndex
    /\ bookingIndexMap = NoIndex
    /\ clock = 0
    /\ trace = [p \in Requests |-> NoTrace]

CommitIdle ==
    /\ pc = [p \in Requests |-> "Idle"]
    /\ booking = [p \in Requests |-> CHOOSE b \in ValidPayloads : TRUE]
    /\ result = [p \in Requests |-> NoResult]
    /\ lockHolder = 0
    /\ bookingSheet = <<>>
    /\ customerSheet = <<>>
    /\ calendar = {}
    /\ customerIndexMap = NoIndex
    /\ bookingIndexMap = NoIndex
    /\ clock = 0
    /\ trace = [p \in Requests |-> NoTrace]

\* A finally block that leaves the lock as it is.
releaseLock_Skipped(p) == lockHolder

\* bookingLock.releaseLock() of the finally block.
releaseLock(p) == IF lockHolder = p THEN 0 ELSE lockHolder

\* ---------------------------------------------------------- the wall clock
\* The instant at which the requests are handled.  handleSaveBooking reads the
\* clock for its timestamps and log lines only; no step of it compares the
\* clock with the slot asked for.
bookingAdvanceHours == 3

\* 2025-07-14 12:00 (the day before BookingDate), and 12:00 and 16:00 of
\* BookingDate itself, Taipei time.
CommitInstants ==
    {12 * SecondsPerHour, SecondsPerDay + 12 * SecondsPerHour,
     SecondsPerDay + 16 * SecondsPerHour}

ClockIdle == currentTime = 12 * SecondsPerHour
ClockInit == currentTime \in CommitInstants

\* ------------------------------------------------ commit protocol: actions
\* handleSaveBooking is entered with a payload (line 15) and asks for the lock.
\* Requests are numbered in the order they arrive.
Submit(p) ==
    /\ pc[p] = "Idle"
    /\ \A q \in 1..(p - 1) : pc[q] # "Idle"
    /\ \E b \in Payloads : booking' = [booking EXCEPT ![p] = b]
    /\ pc' = [pc EXCEPT ![p] = "LockAcquiring"]
    /\ UNCHANGED <<result, lockHolder, bookingSheet, customerSheet, calendar,
                   customerIndexMap, bookingIndexMap, clock, trace>>
    /\ UNCHANGED outsideCommit

\* A lock that is handed out while another request holds it.
AcquireLock_NotExclusive(p) ==
    /\ pc[p] = "LockAcquiring"
    /\ lockHolder' = p
    /\ pc' = [pc EXCEPT ![p] = "Validating"]
    /\ UNCHANGED <<booking, result, bookingSheet, customerSheet, calendar,
                   customerIndexMap, bookingIndexMap, clock, trace>>
    /\ UNCHANGED outsideCommit

\* bookingLock.waitLock(30000) returns: the lock was free (line 22).
AcquireLock(p) ==
    /\ pc[p] = "LockAcquiring"
    /\ lockHolder = 0
    /\ lockHolder' = p
    /\ pc' = [pc EXCEPT ![p] = "Validating"]
    /\ UNCHANGED <<booking, result, bookingSheet, customerSheet, calendar,
                   customerIndexMap, bookingIndexMap, clock, trace>>
    /\ UNCHANGED outsideCommit

\* A timeout branch that also clears the index caches before it returns.
LockTimeout_ClearsCaches(p) ==
    /\ pc[p] = "LockAcquiring"
    /\ lockHolder # 0
    /\ result' = [result EXCEPT ![p] =
                    [kind |-> "returned", success |-> FALSE, error |-> "LOCK_TIMEOUT"]]
    /\ pc' = [pc EXCEPT ![p] = "Released"]
    /\ customerIndexMap' = NoIndex
    /\ bookingIndexMap' = NoIndex
    /\ UNCHANGED <<booking, lockHolder, bookingSheet, customerSheet, calendar, clock, trace>>
    /\ UNCHANGED outsideCommit

\* bookingLock.waitLock(30000) throws: the lock stayed held for 30 s (lines 23-31).
LockTimeout(p) ==
    /\ pc[p] = "LockAcquiring"
    /\ lockHolder # 0
    /\ result' = [result EXCEPT ![p] =
                    [kind |-> "returned", success |-> FALSE, error |-> "LOCK_TIMEOUT"]]
    /\ pc' = [pc EXCEPT ![p] = "Released"]
    /\ UNCHANGED <<booking, lockHolder, bookingSheet, customerSheet, calendar,
                   customerIndexMap, bookingIndexMap, clock, trace>>
    /\ UNCHANGED outsideCommit

\* AdvancedCalendarService.getEvents for a one-day window: one direct request;
\* when it fails, CalendarApp; when that fails too, the empty list.
getEvents(events, range, transport) ==
    IF transport = "failed" THEN {} ELSE EventsList(events, range)

\* A re-check that answers "available" without looking at the slot status.
verifyBackendTimeSlotAvailability_Trusting(events, date, time, transport) ==
    LET day == DayOf(date)
        given == getEvents(events, getOptimizedQueryRange(day), transport)
        slotStatus == checkSingleTimeSlotAvailability(given, ParseTime(time), day)
    IN [available |-> TRUE, errorCode |-> "", slotStatus |-> slotStatus, given |-> given]

\* verifyBackendTimeSlotAvailability(dateStr, timeStr) with the calendar
\* transports behaving as `transport`.
verifyBackendTimeSlotAvailability(events, date, time, transport) ==
    LET day == DayOf(date)
        given == getEvents(events, getOptimizedQueryRange(day), transport)
        slotStatus == checkSingleTimeSlotAvailability(given, ParseTime(time), day)
    IN [available |-> slotStatus.available,
        errorCode |-> IF slotStatus.available THEN "" ELSE "TIME_SLOT_CONFLICT",
        slotStatus |-> slotStatus,
        given |-> given]

\* Lines 33-68 and the finally block: payload validation, then the backend
\* re-check of the slot.
ValidationError(b) ==
    IF MissingRequiredField(b) THEN "missing required field"
    ELSE IF ~ DATE_REGEX(b.date) THEN "invalid date format"
    ELSE "invalid time format"

Validate(p) ==
    /\ pc[p] = "Validating"
    /\ IF ~ PayloadValid(booking[p])
         THEN /\ result' = [result EXCEPT ![p] =
                    [kind |-> "thrown", success |-> FALSE,
                     error |-> ValidationError(booking[p])]]
              /\ pc' = [pc EXCEPT ![p] = "Released"]
              /\ lockHolder' = releaseLock(p)
              /\ UNCHANGED trace
         ELSE \E transport \in {"primary", "fallback", "failed"} :
              LET check == verifyBackendTimeSlotAvailability(
                               calendar, booking[p].date, booking[p].time, transport)
              IN /\ trace' = [trace EXCEPT ![p] =
                        [@ EXCEPT !.fetch = IF transport = "failed" THEN "failed" ELSE "listed",
                                  !.given = check.given,
                                  !.lockHeld = (lockHolder = p),
                                  !.available = check.available]]
                 /\ IF check.available
                      THEN /\ pc' = [pc EXCEPT ![p] = "Persisting"]
                           /\ UNCHANGED <<result, lockHolder>>
                      ELSE /\ result' = [result EXCEPT ![p] =
                                 [kind |-> "returned", success |-> FALSE,
                                  error |-> check.errorCode,
                                  conflictDetails |-> check.slotStatus]]
                           /\ pc' = [pc EXCEPT ![p] = "Released"]
                           /\ lockHolder' = releaseLock(p)
    /\ UNCHANGED <<booking, bookingSheet, customerSheet, calendar,
                   customerIndexMap, bookingIndexMap, clock>>
    /\ UNCHANGED outsideCommit

\* Lines 70-136 and, when a step throws, the catch and finally blocks.
\* `failure` is where the store fails: nowhere, while opening the sheets
\* (line 72), or while updating the customer's counters (line 134).
Persist(p) ==
    /\ pc[p] = "Persisting"
    /\ \E failure \in {"none", "getSheet", "updateCustomer"} :
        LET b == booking[p]
            now == clock + 1
            \* clearCustomerCache(), then findCustomerByPhone rebuilds the index
            index == CustomerIndexAfterFind(NoIndex, customerSheet)
            customerRowIndex == findCustomerByPhone(NoIndex, customerSheet, b.phone)
            lineUserId == IF customerRowIndex > 0
                            THEN RowAt(customerSheet, customerRowIndex).lineUserId
                            ELSE ""
            newBookingRow == getLastRow(bookingSheet) + 1
            rowData == [lineUserId |-> lineUserId, customerName |-> b.customerName,
                        phone |-> b.phone, date |-> FormatDate(b.date), time |-> b.time,
                        createdAt |-> now, eventId |-> <<>>, by |-> p]
            thrown == [kind |-> "thrown", success |-> FALSE, error |-> failure]
        IN IF failure = "getSheet"
             THEN /\ result' = [result EXCEPT ![p] = thrown]
                  /\ pc' = [pc EXCEPT ![p] = "Released"]
                  /\ lockHolder' = releaseLock(p)
                  /\ UNCHANGED <<bookingSheet, customerSheet, customerIndexMap,
                                 bookingIndexMap, clock, trace>>
             ELSE /\ customerIndexMap' = index
                  /\ bookingSheet' = Append(bookingSheet, rowData)
                  /\ bookingIndexMap' = NoIndex              \* clearBookingCache()
                  /\ clock' = now
                  /\ IF failure = "updateCustomer"
                       THEN /\ result' = [result EXCEPT ![p] = thrown]
                            /\ pc' = [pc EXCEPT ![p] = "Released"]
                            /\ lockHolder' = releaseLock(p)
                            /\ trace' = [trace EXCEPT ![p] = [@ EXCEPT !.row = newBookingRow]]
                            /\ UNCHANGED customerSheet
                       ELSE /\ customerSheet' =
                                  updateCustomerBookingInfo(index, customerSheet, b.phone, now)
                            /\ trace' = [trace EXCEPT ![p] =
                                  [@ EXCEPT !.row = newBookingRow,
                                            !.total = IF customerRowIndex > 0
                                                THEN customerSheet'[customerRowIndex - HeaderRows].totalBookings
                                                ELSE 0]]
                            /\ pc' = [pc EXCEPT ![p] = "NotifyingAndLinking"]
                            /\ UNCHANGED <<result, lockHolder>>
    /\ UNCHANGED <<booking, calendar>>
    /\ UNCHANGED outsideCommit

\* createCalendarEvent: the event a booking becomes in the booking calendar.
BookingEvent(p, b) ==
    LET slot == ParseTime(b.time)
        startTime == IsoDate(DayOf(b.date), slot[1], slot[2], 0)
    IN [id |-> <<"booking", p>>, allDay |-> FALSE,
        start |-> startTime, end |-> startTime + defaultDuration * SecondsPerHour]

\* Lines 138-226 and the finally block: the calendar event, the event id
\* written to column 11 of the new row, the e-mail notification (sent only
\* when the event was created) and the LINE message, each of which may fail.
LinkOutcomes ==
    {[calendar |-> "ok", email |-> "ok"], [calendar |-> "ok", email |-> "failed"],
     [calendar |-> "failed", email |-> "none"]}

\* A row of the sheet grid that holds nothing.
BlankRow ==
    [lineUserId |-> "", customerName |-> "", phone |-> "", date |-> "", time |-> "",
     createdAt |-> 0, eventId |-> <<>>, by |-> 0]

RECURSIVE PadTo(_, _)
PadTo(sheet, n) == IF Len(sheet) >= n THEN sheet ELSE PadTo(Append(sheet, BlankRow), n)

\* bookingSheet.getRange(newBookingRow, 11).setValue(eventId) inside its
\* try/catch (lines 151-155): the sheets that may result.  The cell of a data
\* row is set.  Below the last data row (rows were deleted since the append)
\* the id lands in an empty row of the grid, or, when the grid ends before
\* that row, getRange throws and nothing is written.
SetEventId(sheet, row, eventId) ==
    IF row \in 1..Len(sheet)
      THEN {[sheet EXCEPT ![row].eventId = eventId]}
      ELSE {sheet, [PadTo(sheet, row) EXCEPT ![row].eventId = eventId]}

\* A linking step that reports the commit as failed when the calendar event
\* could not be created.
NotifyAndLinkWith_Strict(p, o, line) ==
    LET ev == BookingEvent(p, booking[p])
        row == trace[p].row - HeaderRows
    IN /\ IF o.calendar = "ok"
            THEN /\ calendar' = calendar \cup {ev}
                 /\ bookingSheet' \in SetEventId(bookingSheet, row, ev.id)
            ELSE UNCHANGED <<calendar, bookingSheet>>
       /\ trace' = [trace EXCEPT ![p] =
              [@ EXCEPT !.link = o.calendar, !.email = o.email, !.line = line]]
       /\ result' = [result EXCEPT ![p] =
              [kind |-> "returned", success |-> (o.calendar = "ok"), error |-> "",
               calendarEvent |-> (o.calendar = "ok"), lineMessage |-> (line = "ok")]]
       /\ pc' = [pc EXCEPT ![p] = "Released"]
       /\ lockHolder' = releaseLock(p)

NotifyAndLinkWith(p, o, line) ==
    LET ev == BookingEvent(p, booking[p])
        row == trace[p].row - HeaderRows
    IN /\ IF o.calendar = "ok"
            THEN /\ calendar' = calendar \cup {ev}
                 /\ bookingSheet' \in SetEventId(bookingSheet, row, ev.id)
            ELSE UNCHANGED <<calendar, bookingSheet>>
       /\ trace' = [trace EXCEPT ![p] =
              [@ EXCEPT !.link = o.calendar, !.email = o.email, !.line = line]]
       /\ result' = [result EXCEPT ![p] =
              [kind |-> "returned", success |-> TRUE, error |-> "",
               calendarEvent |-> (o.calendar = "ok"), lineMessage |-> (line = "ok")]]
       /\ pc' = [pc EXCEPT ![p] = "Released"]
       /\ lockHolder' = releaseLock(p)

NotifyAndLink(p) ==
    /\ pc[p] = "NotifyingAndLinking"
    /\ \E o \in LinkOutcomes, line \in {"ok", "failed"} : NotifyAndLinkWith(p, o, line)
    /\ UNCHANGED <<booking, customerSheet, customerIndexMap, bookingIndexMap, clock>>
    /\ UNCHANGED outsideCommit

\* handleGetCustomer(phone): a lookup through the customer index.
GetCustomer ==
    /\ customerIndexMap' = CustomerIndexAfterFind(customerIndexMap, customerSheet)
    /\ UNCHANGED <<pc, booking, result, lockHolder, bookingSheet, customerSheet,
                   calendar, bookingIndexMap, clock, trace>>
    /\ UNCHANGED outsideCommit

\* handleGetCustomerBookings(lineUserId): a lookup through the booking index.
GetCustomerBookings ==
    /\ bookingIndexMap' = BookingIndexAfterGet(bookingIndexMap, bookingSheet)
    /\ UNCHANGED <<pc, booking, result, lockHolder, bookingSheet, customerSheet,
                   calendar, customerIndexMap, clock, trace>>
    /\ UNCHANGED outsideCommit

\* ==================================================== calendar event source
\* AdvancedCalendarService.getEvents with smartPagination.enabled = true.  An
\* upstream answer is a page [kind, items, more]: the call throws, or it
\* returns `items` events and a nextPageToken when `more`.
MaxPageItems == 1       \* events on one upstream page

maxPageCount == 20              \* executePaginatedQuery: pageCount > 20
dailyEventsAverage == 15        \* smartPagination.estimation.dailyEventsAverage
bufferMultiplierTenths == 12    \* smartPagination.estimation.bufferMultiplier (1.2)
maxEstimationDays == 90         \* smartPagination.estimation.maxEstimationDays

\* queryDays of the ranges asked for: an invalid range, one day, and ranges
\* on both sides of the pagination threshold.
QueryDays == {NaN, 1, 11, 12, 62}

\* analyzeQueryComplexity: shouldUsePagination (estimatedEvents > 200 is
\* queryDays * 15 * 1.2 > 200; a NaN makes every comparison false).
shouldUsePagination(days) ==
    /\ days # NaN
    /\ \/ days > 30
       \/ days * dailyEventsAverage * bufferMultiplierTenths > 200 * 10
       \/ 3 * days > maxEstimationDays

PageResponses ==
    [kind : {"page"}, items : 0..MaxPageItems, more : BOOLEAN]
        \cup {[kind |-> "throws", items |-> 0, more |-> FALSE]}

NoSourceResult == [kind |-> "none", events |-> 0]
NoTransports == [primary |-> "untried", fallback |-> "untried"]

SourceIdle ==
    /\ srcPc = "idle"
    /\ queryDays = 1
    /\ pageCount = 0
    /\ pageToken = FALSE
    /\ allEvents = 0
    /\ listCalls = 0
    /\ transports = NoTransports
    /\ srcResult = NoSourceResult

SourceInit ==
    /\ srcPc = "idle"
    /\ queryDays \in QueryDays
    /\ pageCount = 0
    /\ pageToken = FALSE
    /\ allEvents = 0
    /\ listCalls = 0
    /\ transports = NoTransports
    /\ srcResult = NoSourceResult

\* getEvents -> getEventsWithSmartPagination: choose the paginated or the
\* direct query from the analysis.
GetEventsWithSmartPagination ==
    /\ srcPc = "idle"
    /\ srcPc' = IF shouldUsePagination(queryDays) THEN "paging" ELSE "direct"
    /\ UNCHANGED <<queryDays, pageCount, pageToken, allEvents, listCalls,
                   transports, srcResult>>
    /\ UNCHANGED outsideSource

\* A loop whose failing page discards the events gathered before it.
FetchPage_DropsGathered ==
    /\ srcPc = "paging"
    /\ pageCount' = pageCount + 1
    /\ listCalls' = listCalls + 1
    /\ \E r \in PageResponses :
        IF r.kind = "throws"
          THEN /\ transports' = [transports EXCEPT !.primary =
                                    IF @ = "untried" THEN "failed" ELSE "partial"]
               /\ pageToken' = pageToken
               /\ allEvents' = 0
               /\ srcPc' = "done"
               /\ srcResult' = [kind |-> "returned", events |-> 0]
          ELSE /\ transports' = [transports EXCEPT !.primary =
                                    IF @ = "untried" THEN "ok" ELSE @]
               /\ allEvents' = allEvents + r.items
               /\ pageToken' = r.more
               /\ IF pageCount' > maxPageCount \/ ~ r.more
                    THEN /\ srcPc' = "done"
                         /\ srcResult' = [kind |-> "returned", events |-> allEvents']
                    ELSE UNCHANGED <<srcPc, srcResult>>
    /\ UNCHANGED queryDays
    /\ UNCHANGED outsideSource

\* executePaginatedQuery: one turn of the do .. while (pageToken) loop.
FetchPage ==
    /\ srcPc = "paging"
    /\ pageCount' = pageCount + 1
    /\ listCalls' = listCalls + 1
    /\ \E r \in PageResponses :
        IF r.kind = "throws"
          THEN /\ transports' = [transports EXCEPT !.primary =
                                    IF @ = "untried" THEN "failed" ELSE "partial"]
               /\ UNCHANGED <<pageToken, allEvents>>
               /\ srcPc' = "done"
               /\ srcResult' = [kind |-> "returned", events |-> allEvents]
          ELSE /\ transports' = [transports EXCEPT !.primary =
                                    IF @ = "untried" THEN "ok" ELSE @]
               /\ allEvents' = allEvents + r.items
               /\ pageToken' = r.more
               /\ IF pageCount' > maxPageCount \/ ~ r.more
                    THEN /\ srcPc' = "done"
                         /\ srcResult' = [kind |-> "returned", events |-> allEvents']
                    ELSE UNCHANGED <<srcPc, srcResult>>
    /\ UNCHANGED queryDays
    /\ UNCHANGED outsideSource

\* getEventsDirectly: one Calendar.Events.list call, the fallback on a throw.
FetchDirectly ==
    /\ srcPc = "direct"
    /\ listCalls' = listCalls + 1
    /\ \E r \in PageResponses :
        IF r.kind = "throws"
          THEN /\ transports' = [transports EXCEPT !.primary = "failed"]
               /\ srcPc' = "fallback"
               /\ UNCHANGED <<allEvents, srcResult>>
          ELSE /\ transports' = [transports EXCEPT !.primary = "ok"]
               /\ allEvents' = r.items
               /\ srcPc' = "done"
               /\ srcResult' = [kind |-> "returned", events |-> r.items]
    /\ UNCHANGED <<queryDays, pageCount, pageToken>>
    /\ UNCHANGED outsideSource

\* A fallback that lets the CalendarApp error out of getEvents.
FallbackToCalendarApp_Rethrows ==
    /\ srcPc = "fallback"
    /\ \E o \in {"ok", "notfound", "failed"}, n \in 0..MaxPageItems :
        /\ o = "ok" \/ n = 0
        /\ transports' = [transports EXCEPT !.fallback = o]
        /\ allEvents' = n
        /\ srcResult' = [kind |-> IF o = "failed" THEN "thrown" ELSE "returned",
                         events |-> n]
    /\ srcPc' = "done"
    /\ UNCHANGED <<queryDays, pageCount, pageToken, listCalls>>
    /\ UNCHANGED outsideSource

\* fallbackToCalendarApp: CalendarApp's events, [] when the calendar is not
\* found or CalendarApp throws.
FallbackToCalendarApp ==
    /\ srcPc = "fallback"
    /\ \E o \in {"ok", "notfound", "failed"}, n \in 0..MaxPageItems :
        /\ o = "ok" \/ n = 0
        /\ transports' = [transports EXCEPT !.fallback = o]
        /\ allEvents' = n
        /\ srcResult' = [kind |-> "returned", events |-> n]
    /\ srcPc' = "done"
    /\ UNCHANGED <<queryDays, pageCount, pageToken, listCalls>>
    /\ UNCHANGED outsideSource

\* ======================================================= time-slot extractor
\* A title is a sequence of tokens: a run of digits [t = "num", v = its value,
\* w = its width], or one of the marks "am" (morning marker), "pm" (afternoon
\* marker), "eve" (evening marker), "colon", "dian" and "shi" (the two o'clock
\* characters), "sp" (white space), "txt" (any other character).  A time
\* string HH:MM is the pair <<hour, minute>> of its two zero-padded fields.
MaxTitleLen == 3        \* tokens in a title

Num(v, w) == [t |-> "num", v |-> v, w |-> w]
Mark(t) == [t |-> t, v |-> 0, w |-> 0]
Tokens ==
    {Num(2, 1), Num(12, 2), Num(0, 2), Num(30, 2)}
        \cup {Mark(t) : t \in {"am", "pm", "eve", "colon", "dian", "shi", "sp", "txt"}}

\* Two digit runs next to each other are one run.
WellFormedTitle(title) ==
    \A i \in 1..(Len(title) - 1) : ~ (title[i].t = "num" /\ title[i + 1].t = "num")

RECURSIVE TitlesOfLen(_)
TitlesOfLen(n) ==
    IF n = 0 THEN {<<>>}
    ELSE {Append(title, tok) : title \in TitlesOfLen(n - 1), tok \in Tokens}

RECURSIVE TitlesUpTo(_)
TitlesUpTo(n) ==
    IF n = 0 THEN {<<>>}
    ELSE TitlesUpTo(n - 1) \cup {title \in TitlesOfLen(n) : WellFormedTitle(title)}

Titles == TitlesUpTo(MaxTitleLen)

TokenAt(title, i) == IF i \in 1..Len(title) THEN title[i] ELSE Mark("end")
IsDigits(title, i, widths) == TokenAt(title, i).t = "num" /\ TokenAt(title, i).w \in widths
NoMatch == [ok |-> FALSE, hour |-> 0, minute |-> 0, next |-> 0]

\* /(\d{1,2}):(\d{2})/ tried at token i.
MatchColon(title, i) ==
    IF IsDigits(title, i, {1, 2}) /\ TokenAt(title, i + 1).t = "colon"
          /\ IsDigits(title, i + 2, {2})
      THEN [ok |-> TRUE, hour |-> title[i].v, minute |-> title[i + 2].v, next |-> i + 3]
      ELSE NoMatch

\* /(\d{1,2})X(\d{2})?/ tried at token i, X one of the o'clock characters.
MatchOClock(title, i, mark) ==
    IF IsDigits(title, i, {1, 2}) /\ TokenAt(title, i + 1).t = mark
      THEN IF IsDigits(title, i + 2, {2})
             THEN [ok |-> TRUE, hour |-> title[i].v, minute |-> title[i + 2].v, next |-> i + 3]
             ELSE [ok |-> TRUE, hour |-> title[i].v, minute |-> 0, next |-> i + 2]
      ELSE NoMatch

\* The first token at or after i that is no white space.
RECURSIVE SkipSpace(_, _)
SkipSpace(title, i) ==
    IF TokenAt(title, i).t = "sp" THEN SkipSpace(title, i + 1) ELSE i

\* /M\s*(\d{1,2}):?(\d{2})?/ tried at token i, M a period marker.
MatchMarker(title, i, mark) ==
    LET h == SkipSpace(title, i + 1)
        c == IF TokenAt(title, h + 1).t = "colon" THEN h + 2 ELSE h + 1
    IN IF TokenAt(title, i).t = mark /\ IsDigits(title, h, {1, 2})
         THEN IF c = h + 2 /\ IsDigits(title, c, {2})
                THEN [ok |-> TRUE, hour |-> title[h].v, minute |-> title[c].v, next |-> c + 1]
                ELSE [ok |-> TRUE, hour |-> title[h].v, minute |-> 0, next |-> c]
         ELSE NoMatch

\* timePatterns, in the order of the array.
timePatterns == <<"colon", "dian", "shi", "am", "pm", "eve">>
MatchAt(pattern, title, i) ==
    CASE pattern = "colon" -> MatchColon(title, i)
      [] pattern \in {"dian", "shi"} -> MatchOClock(title, i, pattern)
      [] OTHER -> MatchMarker(title, i, pattern)

Includes(title, mark) == \E i \in 1..Len(title) : title[i].t = mark

\* The hour adjustment and the HH:MM string of one match.
AdjustHour(title, hour) ==
    IF Includes(title, "pm") /\ hour < 12 THEN hour + 12
    ELSE IF Includes(title, "am") /\ hour = 12 THEN 0
    ELSE hour

\* while ((match = pattern.exec(title)) !== null): the matches of one global
\* pattern, scanned left to right without overlap, from token i on.
RECURSIVE Matches(_, _, _)
Matches(pattern, title, i) ==
    IF i > Len(title) THEN {}
    ELSE LET m == MatchAt(pattern, title, i)
         IN IF m.ok THEN {m} \cup Matches(pattern, title, m.next)
            ELSE Matches(pattern, title, i + 1)

AllMatches(title) ==
    UNION {Matches(timePatterns[k], title, 1) : k \in 1..Len(timePatterns)}

\* foundTimes after the pattern loop.
TimesInTitle(title) == {<<AdjustHour(title, m.hour), m.minute>> : m \in AllMatches(title)}

\* An eventStartTime is the pair <<getHours(), getMinutes()>>, or NoStartTime
\* when the caller passes none.
NoStartTime == <<>>

\* A fallback that adds the start time whether or not a pattern matched.
foundTimes_AlwaysFallback(title, start) ==
    IF start # NoStartTime THEN TimesInTitle(title) \cup {start} ELSE TimesInTitle(title)

\* foundTimes after the fallback to the event's start time.
foundTimes(title, start) ==
    IF TimesInTitle(title) = {} /\ start # NoStartTime THEN {start} ELSE TimesInTitle(title)

\* A label that calls every hour before noon morning.
period_BeforeNoonIsMorning(time) ==
    IF time[1] < 12 THEN "morning"
    ELSE IF time[1] >= 12 /\ time[1] < 18 THEN "afternoon"
    ELSE "evening"

\* The period label of an HH:MM string.
period(time) ==
    IF time[1] >= 6 /\ time[1] < 12 THEN "morning"
    ELSE IF time[1] >= 12 /\ time[1] < 18 THEN "afternoon"
    ELSE "evening"

\* extractTimeSlotsFromTitle: the slots, as a set (their order in the array
\* is the order of discovery, which no caller keeps).
extractTimeSlotsFromTitle(title, start) ==
    {[time |-> time, period |-> period(time), available |-> TRUE,
      source |-> "calendar_event", originalTitle |-> title] : time \in foundTimes(title, start)}

\* a.time.localeCompare(b.time) < 0 on two zero-padded HH:MM strings.
TimeLess(a, b) == a[1] < b[1] \/ (a[1] = b[1] /\ a[2] < b[2])

\* availableSlots.sort(...): the slots in ascending order of time.
RECURSIVE SortByTime(_)
SortByTime(slots) ==
    IF slots = {} THEN <<>>
    ELSE LET first == CHOOSE a \in slots : \A b \in slots : ~ TimeLess(b.time, a.time)
         IN <<first>> \o SortByTime(slots \ {first})

\* The inner loop with the existingSlot test dropped.
AddSlots_KeepingAll(kept, slots) == kept \cup slots

\* The inner loop: a slot is pushed unless one of its time is already kept.
AddSlots(kept, slots) ==
    kept \cup {slot \in slots : \A k \in kept : k.time # slot.time}

\* The loop over the events of the day, a sequence of [title, start], from
\* event i on.
RECURSIVE CollectSlots(_, _, _)
CollectSlots(events, i, kept) ==
    IF i > Len(events) THEN kept
    ELSE CollectSlots(events, i + 1,
            AddSlots(kept, extractTimeSlotsFromTitle(events[i].title, events[i].start)))

\* extractTimeSlotsFromEvents / getAvailableTimeSlotsFromCalendar on the
\* events of the queried day.
extractTimeSlotsFromEvents(events) == SortByTime(CollectSlots(events, 1, {}))

\* ------------------------------------------------ extractor check: inputs
MaxDayEvents == 3       \* source-calendar events handed to the day extraction

StartTimes == {<<9, 0>>, <<12, 0>>}
SampleTitles ==
    {<<Num(12, 2), Mark("colon"), Num(0, 2)>>,
     <<Num(12, 2), Mark("dian")>>,
     <<Mark("pm"), Num(2, 1), Mark("colon"), Num(30, 2)>>,
     <<Mark("txt")>>}

\* A source-calendar event as the extraction sees it: its title, the day and
\* the wall-clock time of its start.
SourceEvents == [title : SampleTitles, start : StartTimes, day : 0..1]

RECURSIVE EventListsUpTo(_)
EventListsUpTo(n) ==
    IF n = 0 THEN {<<>>}
    ELSE LET shorter == EventListsUpTo(n - 1)
         IN shorter \cup {Append(events, e) : events \in shorter, e \in SourceEvents}

\* The day the extraction is asked for.
QueryDay == 0
EventsOfDay(events) == SelectSeq(events, LAMBDA e : e.day = QueryDay)

NoExtract == [kind |-> "none", slots |-> {}, list |-> <<>>]

ExtractIdle ==
    /\ xTitle = <<>>
    /\ xStart = NoStartTime
    /\ xEvents = <<>>
    /\ xResult = NoExtract

ExtractInit ==
    /\ xResult = NoExtract
    /\ \/ /\ xTitle \in Titles
          /\ xStart \in StartTimes \cup {NoStartTime}
          /\ xEvents = <<>>
       \/ /\ xTitle = <<>>
          /\ xStart = NoStartTime
          /\ xEvents \in EventListsUpTo(MaxDayEvents) \ {<<>>}

\* extractTimeSlotsFromTitle(title, eventStartTime).
ExtractTimeSlotsFromTitle ==
    /\ xResult.kind = "none"
    /\ xEvents = <<>>
    /\ xResult' = [kind |-> "title", slots |-> extractTimeSlotsFromTitle(xTitle, xStart),
                   list |-> <<>>]
    /\ UNCHANGED <<xTitle, xStart, xEvents>>
    /\ UNCHANGED outsideExtract

\* extractTimeSlotsFromEvents(events, dateStr): the batch path.
ExtractTimeSlotsFromEvents ==
    /\ xResult.kind = "none"
    /\ xEvents # <<>>
    /\ xResult' = [kind |-> "events", slots |-> {},
                   list |-> extractTimeSlotsFromEvents(EventsOfDay(xEvents))]
    /\ UNCHANGED <<xTitle, xStart, xEvents>>
    /\ UNCHANGED outsideExtract

\* getAvailableTimeSlotsFromCalendar(date): the single-day path, which lists
\* the source calendar itself and gets [] from a failed listing.
GetAvailableTimeSlotsFromCalendar ==
    /\ xResult.kind = "none"
    /\ xEvents # <<>>
    /\ \E listed \in BOOLEAN :
        xResult' = [kind |-> "calendar", slots |-> {},
                    list |-> IF listed THEN extractTimeSlotsFromEvents(EventsOfDay(xEvents))
                             ELSE <<>>]
    /\ UNCHANGED <<xTitle, xStart, xEvents>>
    /\ UNCHANGED outsideExtract

\* ============================================================ batch query
\* handleBatchCheckTimeSlotAvailability(startDate, endDate).  Day 0 of this
\* check is 2025-07-01; a date string parses to its day number, or to NaN.
MaxBatchEvents == 1     \* events in each calendar of the batch check

maxDays == 62                   \* handleBatchCheckTimeSlotAvailability: maxDays

DateStrings ==
    {"2025-07-01", "2025-07-02", "2025-07-03", "2025-09-01", "2025-09-02",
     "2025/07/01", "2025-13-01"}

\* /^\d{4}-\d{2}-\d{2}$/.test(date)
dateRegex(date) == date # "2025/07/01"

\* new Date(date) for a string that passed dateRegex.
ParseDate(date) ==
    CASE date = "2025-07-01" -> 0
      [] date = "2025-07-02" -> 1
      [] date = "2025-07-03" -> 2
      [] date = "2025-09-01" -> 62
      [] date = "2025-09-02" -> 63
      [] OTHER -> NaN

\* The validation of the two dates with the isNaN test left out.
DateError_FormatOnly(startDate, endDate) ==
    LET start == ParseDate(startDate)
        end == ParseDate(endDate)
    IN IF ~ dateRegex(startDate) \/ ~ dateRegex(endDate) THEN "DATE_FORMAT"
       ELSE IF start # NaN /\ end # NaN /\ start > end THEN "START_AFTER_END"
       ELSE IF start # NaN /\ end # NaN /\ end - start > maxDays THEN "RANGE_TOO_LARGE"
       ELSE ""

\* The validation of the two dates: the message thrown, "" when none is.
DateError(startDate, endDate) ==
    LET start == ParseDate(startDate)
        end == ParseDate(endDate)
    IN IF ~ dateRegex(startDate) \/ ~ dateRegex(endDate) THEN "DATE_FORMAT"
       ELSE IF start = NaN \/ end = NaN THEN "INVALID_DATE"
       ELSE IF start > end THEN "START_AFTER_END"
       ELSE IF end - start > maxDays THEN "RANGE_TOO_LARGE"
       ELSE ""

\* The dates the per-date loop visits (none from an Invalid Date).
RangeDays(start, end) == IF start = NaN \/ end = NaN THEN {} ELSE start..end

\* A calendar fetch that is repeated for every day of the range.
BatchFetches_PerDay(start, end) ==
    IF RangeDays(start, end) = {} THEN <<>>
    ELSE [i \in 1..(2 * (end - start + 1)) |->
             IF i % 2 = 1 THEN "timeSlots" ELSE "booking"]

\* The getEvents calls of one batch query: the source calendar, then the
\* booking calendar, each once for the whole range.
BatchFetches(start, end) == <<"timeSlots", "booking">>

\* Source-calendar events of the batch check: one-hour events with a title.
BatchSourceEvents ==
    {[id |-> <<"slot", d, k>>, allDay |-> FALSE,
      start |-> d * SecondsPerDay + 9 * SecondsPerHour,
      end |-> d * SecondsPerDay + 10 * SecondsPerHour,
      title |-> title] :
        d \in 0..1, k \in {0}, title \in SampleTitles}

\* Booking-calendar events of the batch check.
BatchBookingEvents ==
    {[id |-> <<"booking", d, h>>, allDay |-> FALSE,
      start |-> d * SecondsPerDay + h * SecondsPerHour,
      end |-> d * SecondsPerDay + (h + 1) * SecondsPerHour] :
        d \in 0..1, h \in {9, 12}}

RECURSIVE SetsUpTo(_, _)
SetsUpTo(universe, n) ==
    IF n = 0 THEN {{}}
    ELSE LET smaller == SetsUpTo(universe, n - 1)
         IN smaller \cup {es \cup {e} : es \in smaller, e \in universe}

\* getEvents as the handler sees it: the listed events, [] when it fell back
\* to the empty list.
BatchGetEvents(events, start, end, outcome) ==
    IF outcome = "listed"
      THEN EventsList(events, getOptimizedQueryRangeBatch(start, end))
      ELSE {}

\* timeSlotsByDate[day] / bookingsByDate[day]: the fetched events starting on
\* the day, for a day within the range.
GroupByDate(fetched, start, end, day) ==
    {e \in fetched : getTaipeiDateString(getStartTime(e)) = day /\ day >= start /\ day <= end}

\* getHours(), getMinutes() of an instant.
WallClock(t) == <<(t % SecondsPerDay) \div SecondsPerHour, (t % SecondsPerHour) \div 60>>

\* The events of one day in the order of their start, as the extraction
\* reads them.
RECURSIVE InStartOrder(_)
InStartOrder(events) ==
    IF events = {} THEN <<>>
    ELSE LET first == CHOOSE e \in events : \A f \in events : getStartTime(e) <= getStartTime(f)
         IN <<[title |-> first.title, start |-> WallClock(getStartTime(first)),
               day |-> getTaipeiDateString(getStartTime(first))]>>
               \o InStartOrder(events \ {first})

\* The injected failure: nothing fails, or on one day the extraction fails
\* (caught inside extractTimeSlotsFromEvents), the slot check fails (caught
\* inside checkSingleTimeSlotAvailabilityFromEvents), or the loop body throws.
NoFailure == [day |-> NaN, kind |-> "none"]
Failures == {NoFailure} \cup [day : 0..1, kind : {"extract", "check", "throw"}]

CheckFailed == [available |-> FALSE, conflictCount |-> -1, conflictingEvents |-> {}]

\* A per-date turn that leaves the booked slots out of the entry.
ProcessDate_OmitsBooked(day, timeSlotsEvents, bookingEvents, start, end, failure) ==
    LET failing == IF failure.day = day THEN failure.kind ELSE "none"
        dayTimeSlotsEvents == GroupByDate(timeSlotsEvents, start, end, day)
        availableSlots ==
            IF failing = "extract" /\ dayTimeSlotsEvents # {} THEN <<>>
            ELSE extractTimeSlotsFromEvents(InStartOrder(dayTimeSlotsEvents))
        times == {availableSlots[i].time : i \in 1..Len(availableSlots)}
        dayBookingEvents == GroupByDate(bookingEvents, start, end, day)
        checked == {[time |-> time,
                     status |-> IF failing = "check" THEN CheckFailed
                                ELSE checkSingleTimeSlotAvailability(dayBookingEvents, time, day)] :
                       time \in times}
    IN IF failing = "throw" THEN [day |-> day, error |-> "thrown", slots |-> {}]
       ELSE [day |-> day, error |-> "", slots |-> {slot \in checked : slot.status.available}]

\* One turn of the per-date loop: the entry result[dateStr].
ProcessDate(day, timeSlotsEvents, bookingEvents, start, end, failure) ==
    LET failing == IF failure.day = day THEN failure.kind ELSE "none"
        dayTimeSlotsEvents == GroupByDate(timeSlotsEvents, start, end, day)
        availableSlots ==
            IF failing = "extract" /\ dayTimeSlotsEvents # {} THEN <<>>
            ELSE extractTimeSlotsFromEvents(InStartOrder(dayTimeSlotsEvents))
        times == {availableSlots[i].time : i \in 1..Len(availableSlots)}
        dayBookingEvents == GroupByDate(bookingEvents, start, end, day)
    IN IF failing = "throw" THEN [day |-> day, error |-> "thrown", slots |-> {}]
       ELSE [day |-> day, error |-> "",
             slots |-> {[time |-> time,
                         status |-> IF failing = "check" THEN CheckFailed
                                    ELSE checkSingleTimeSlotAvailability(dayBookingEvents, time, day)] :
                           time \in times}]

\* A per-date loop that a throwing date ends.
BatchData_StopsAtFailure(timeSlotsEvents, bookingEvents, start, end, failure) ==
    {ProcessDate(day, timeSlotsEvents, bookingEvents, start, end, failure) :
        day \in {d \in RangeDays(start, end) :
                    failure.kind = "none" \/ failure.day \notin RangeDays(start, end)
                        \/ d <= failure.day}}

\* The per-date loop: result, one entry for each date of the range.
BatchData(timeSlotsEvents, bookingEvents, start, end, failure) ==
    {ProcessDate(day, timeSlotsEvents, bookingEvents, start, end, failure) :
        day \in RangeDays(start, end)}

NoBatchResult == [kind |-> "none", success |-> FALSE, error |-> "", data |-> {},
                  totalDays |-> 0, totalSlots |-> 0]
BatchError(error) == [kind |-> "returned", success |-> FALSE, error |-> error, data |-> {},
                      totalDays |-> 0, totalSlots |-> 0]

Environments ==
    [configured : BOOLEAN, timeSlots : {"listed", "failed"}, booking : {"listed", "failed"},
     failure : Failures]
QuietEnvironment ==
    [configured |-> TRUE, timeSlots |-> "listed", booking |-> "listed", failure |-> NoFailure]

BatchIdle ==
    /\ bStart = "2025-07-01"
    /\ bEnd = "2025-07-01"
    /\ bEnv = QuietEnvironment
    /\ bSource = {}
    /\ bBooking = {}
    /\ bFetches = <<>>
    /\ bResult = NoBatchResult

BatchInit ==
    /\ bStart \in DateStrings
    /\ bEnd \in DateStrings
    /\ bFetches = <<>>
    /\ bResult = NoBatchResult
    /\ IF DateError(bStart, bEnd) = ""
         THEN /\ bEnv \in Environments
              /\ bSource \in SetsUpTo(BatchSourceEvents, MaxBatchEvents)
              /\ bBooking \in SetsUpTo(BatchBookingEvents, MaxBatchEvents)
              /\ bEnv.configured \/ (bSource = {} /\ bBooking = {} /\ bEnv.failure = NoFailure)
         ELSE /\ bEnv = QuietEnvironment
              /\ bSource = {}
              /\ bBooking = {}

\* handleBatchCheckTimeSlotAvailability(startDate, endDate).
BatchCheckTimeSlotAvailability ==
    LET error == DateError(bStart, bEnd)
        start == ParseDate(bStart)
        end == ParseDate(bEnd)
        timeSlotsEvents == BatchGetEvents(bSource, start, end, bEnv.timeSlots)
        bookingEvents == BatchGetEvents(bBooking, start, end, bEnv.booking)
        data == BatchData(timeSlotsEvents, bookingEvents, start, end, bEnv.failure)
        counted == {entry \in data : entry.error = "" /\ entry.slots # {}}
    IN /\ bResult.kind = "none"
       /\ IF error # ""
            THEN /\ bResult' = BatchError(error)
                 /\ UNCHANGED bFetches
            ELSE IF ~ bEnv.configured
              THEN /\ bResult' = BatchError("CALENDAR_NOT_CONFIGURED")
                   /\ UNCHANGED bFetches
              ELSE /\ bFetches' = BatchFetches(start, end)
                   /\ bResult' = [kind |-> "returned", success |-> TRUE, error |-> "",
                                  data |-> data,
                                  totalDays |-> Cardinality(counted),
                                  totalSlots |-> Cardinality(
                                      UNION {{<<entry.day, slot.time>> : slot \in entry.slots} :
                                                entry \in counted})]
       /\ UNCHANGED <<bStart, bEnd, bEnv, bSource, bBooking>>
       /\ UNCHANGED outsideBatch

\* ======================================================= request dispatcher
\* handleRequest: one request, from its arrival to the response.  The request
\* is its action name, its csrfToken field and its data; what the model keeps of
\* the data is whether the handler the request reaches accepts it.

minTokenLength == 20

\* The csrfToken field: absent, or a string of which the check reads the length
\* and whether it contains "_".
NoToken == [present |-> FALSE, length |-> 0, underscore |-> FALSE]
CsrfTokens ==
    {NoToken} \cup
    {t \in [present : {TRUE}, length : {0, minTokenLength - 1, minTokenLength},
            underscore : BOOLEAN] : t.underscore => t.length > 0}

\* !csrfToken: undefined and the empty string are both falsy.
TokenMissing(token) == ~token.present \/ token.length = 0

TokenMalformed(token) == ~token.underscore \/ token.length < minTokenLength

csrfProtectedActions == {"saveCustomer", "saveBooking", "updateBookingStatus", "deleteBooking"}

\* The cases of the switch.
HandledActions ==
    {"ping", "saveCustomer", "saveBooking", "getCustomer", "updateBookingStatus",
     "verifyCustomerByLineId", "getCustomerByLineId", "getCustomerBookings",
     "getCalendarConfig", "getAvailableTimeSlots", "getBatchAvailableTimeSlots",
     "checkTimeSlotAvailability", "getGoogleCalendarCredentials",
     "handleBatchCheckTimeSlotAvailability", "getSystemCalendarInfo", "getHomepageData",
     "updateAdminSettings", "getAdminSettings"}

NoAction == ""
Actions == HandledActions \cup {"deleteBooking", "somethingElse", NoAction}

\* The stores a handler writes when it accepts its data: the customer sheet, the
\* booking sheet and the booking calendar of the bookings, the settings sheet of
\* the same spreadsheet.  A handler that rejects its data throws before its first
\* write and returns an error result.
HandlerWrites(action, accepted) ==
    IF ~accepted THEN {}
    ELSE IF action = "saveCustomer" THEN {"customerSheet"}
    ELSE IF action = "saveBooking" THEN {"bookingSheet", "customerSheet", "calendar"}
    ELSE IF action = "updateAdminSettings" THEN {"settingsSheet"}
    ELSE {}

HandlerResult(action, accepted) ==
    IF action = "ping" THEN [success |-> TRUE, error |-> ""]
    ELSE IF action = "updateBookingStatus" THEN [success |-> FALSE, error |-> "removed"]
    ELSE IF accepted THEN [success |-> TRUE, error |-> ""]
    ELSE [success |-> FALSE, error |-> "handler"]

NoResponse == [success |-> FALSE, error |-> "none"]
ErrorResponse(error) == [success |-> FALSE, error |-> error]

Bodies == {"parameters", "postData", "unparsable"}

DispatchIdle ==
    /\ dBody = "parameters"
    /\ dAction = "ping"
    /\ dToken = NoToken
    /\ dAccepted = TRUE
    /\ dHandler = Null
    /\ dWrites = {}
    /\ dResponse = NoResponse

DispatchInit ==
    /\ dBody \in Bodies
    /\ dAction \in Actions
    /\ dToken \in CsrfTokens
    /\ dAccepted \in BOOLEAN
    /\ dHandler = Null
    /\ dWrites = {}
    /\ dResponse = NoResponse

\* The token check in front of the switch: the verdict for one request.
Dispatched(action, token) ==
    IF action \in csrfProtectedActions /\ TokenMissing(token) THEN "CSRF_TOKEN_MISSING"
    ELSE IF action \in csrfProtectedActions /\ TokenMalformed(token) THEN "CSRF_TOKEN_INVALID"
    ELSE "dispatch"

\* handleRequest.
HandleRequest ==
    /\ dResponse = NoResponse
    /\ IF dBody = "unparsable"
       THEN /\ dResponse' = ErrorResponse("parse")
            /\ UNCHANGED <<dHandler, dWrites>>
       ELSE IF Dispatched(dAction, dToken) # "dispatch"
       THEN /\ dResponse' = ErrorResponse(Dispatched(dAction, dToken))
            /\ UNCHANGED <<dHandler, dWrites>>
       ELSE IF dAction \in HandledActions
       THEN /\ dHandler' = dAction
            /\ dWrites' = HandlerWrites(dAction, dAccepted)
            /\ dResponse' = HandlerResult(dAction, dAccepted)
       ELSE /\ dResponse' = ErrorResponse(IF dAction = NoAction THEN "No action specified"
                                                                ELSE "Unknown action")
            /\ UNCHANGED <<dHandler, dWrites>>
    /\ UNCHANGED <<dBody, dAction, dToken, dAccepted>>
    /\ UNCHANGED outsideDispatch

\* =================================================== customer registration
\* handleSaveCustomer.  Two requests are two executions of the script: each
\* reads the sheet when it looks the customer up and writes it afterwards, and
\* nothing orders one execution's reads and writes against the other's.
NumRegistrations == 2   \* concurrent saveCustomer requests

Registrants == 1..NumRegistrations

\* SYSTEM_CONFIG.PHONE_REGEX on the phone strings of the model.
PHONE_REGEX(phone) == phone \in {RegisteredPhone, UnknownPhone}

CustomerPayloads ==
    [lineUserId : {"", "U1", "U2"}, name : {"Bea"},
     phone : {RegisteredPhone, UnknownPhone, "09-bad"}]

CustomerValid(customer) ==
    customer.name # "" /\ customer.phone # "" /\ PHONE_REGEX(customer.phone)

\* findCustomerByLineUserId: the row number returned (-1 when absent).
findCustomerByLineUserId(index, sheet, lineUserId) ==
    LET m == CustomerIndexAfterFind(index, sheet).map
    IN IF lineUserId = "" THEN -1
       ELSE IF <<"line", lineUserId>> \in DOMAIN m THEN m[<<"line", lineUserId>>].rowIndex
       ELSE -1

NotLooked == [kind |-> "none", row |-> -1]

\* Lines 33-58 and 77: clearCustomerCache(), then the two lookups on the index
\* rebuilt from the sheet.
LookupCustomer(sheet, customer) ==
    LET existingRowByLineId == findCustomerByLineUserId(NoIndex, sheet, customer.lineUserId)
        existingRowByPhone == findCustomerByPhone(NoIndex, sheet, customer.phone)
    IN IF existingRowByLineId > 0 THEN [kind |-> "byLineId", row |-> existingRowByLineId]
       ELSE IF existingRowByPhone > 0 THEN [kind |-> "byPhone", row |-> existingRowByPhone]
       ELSE [kind |-> "new", row |-> getLastRow(sheet) + 1]

\* Lines 39-48, 62-66 and 80-92: the sheet after the writes of one branch.
WriteCustomer(sheet, customer, found) ==
    IF found.kind = "byLineId"
      THEN [sheet EXCEPT ![found.row - HeaderRows] =
               [@ EXCEPT !.name = customer.name, !.phone = customer.phone]]
    ELSE IF found.kind = "byPhone"
      THEN [sheet EXCEPT ![found.row - HeaderRows] =
               [@ EXCEPT !.lineUserId = customer.lineUserId, !.name = customer.name]]
    ELSE Append(sheet, [lineUserId |-> customer.lineUserId, name |-> customer.name,
                        phone |-> customer.phone, lastBooking |-> 0, totalBookings |-> 0])

NoRegistration == [kind |-> "none", success |-> FALSE, isExisting |-> FALSE]

RegisterIdle ==
    /\ rPc = [r \in Registrants |-> "Done"]
    /\ rCustomer = [r \in Registrants |-> CHOOSE c \in CustomerPayloads : TRUE]
    /\ rFound = [r \in Registrants |-> NotLooked]
    /\ rResult = [r \in Registrants |-> NoRegistration]

RegisterInit ==
    /\ rPc = [r \in Registrants |-> "Idle"]
    /\ rCustomer \in [Registrants -> CustomerPayloads]
    /\ rFound = [r \in Registrants |-> NotLooked]
    /\ rResult = [r \in Registrants |-> NoRegistration]

\* handleSaveCustomer up to its first write: validation and the lookups.
SaveCustomerLookup(r) ==
    /\ rPc[r] = "Idle"
    /\ IF ~ CustomerValid(rCustomer[r])
         THEN /\ rResult' = [rResult EXCEPT ![r] =
                                [kind |-> "thrown", success |-> FALSE, isExisting |-> FALSE]]
              /\ rPc' = [rPc EXCEPT ![r] = "Done"]
              /\ UNCHANGED <<rFound, customerIndexMap>>
         ELSE /\ rFound' = [rFound EXCEPT ![r] = LookupCustomer(customerSheet, rCustomer[r])]
              /\ customerIndexMap' = CustomerIndexAfterFind(NoIndex, customerSheet)
              /\ rPc' = [rPc EXCEPT ![r] = "Writing"]
              /\ UNCHANGED rResult
    /\ UNCHANGED <<rCustomer, customerSheet>>
    /\ UNCHANGED <<pc, booking, result, lockHolder, bookingSheet, calendar,
                   bookingIndexMap, clock, trace>>
    /\ UNCHANGED outsideRegister

\* handleSaveCustomer from its first write to its return.
SaveCustomerWrite(r) ==
    /\ rPc[r] = "Writing"
    /\ customerSheet' = WriteCustomer(customerSheet, rCustomer[r], rFound[r])
    /\ rResult' = [rResult EXCEPT ![r] =
                      [kind |-> "returned", success |-> TRUE,
                       isExisting |-> (rFound[r].kind # "new")]]
    /\ rPc' = [rPc EXCEPT ![r] = "Done"]
    /\ UNCHANGED <<rCustomer, rFound, customerIndexMap>>
    /\ UNCHANGED <<pc, booking, result, lockHolder, bookingSheet, calendar,
                   bookingIndexMap, clock, trace>>
    /\ UNCHANGED outsideRegister

\* ============================================================ deletion sync
\* syncCalendarDeletions, run by a time trigger under the script lock (not the
\* document lock of handleSaveBooking), and processCalendarChanges.
MaxSyncRows == 2        \* booking rows in the sheet when the sync starts

\* The ids of the events the calendar reports as cancelled: events of bookings
\* and an event no booking row is linked to.
SyncEventIds == {<<"booking", p>> : p \in 1..MaxSyncRows} \cup {<<"other", 0>>}

\* The booking row of position k: its customer known by LINE id or not, its
\* calendar event linked (column 11) or not.
SyncRow(k, lineUserId, linked) ==
    [lineUserId |-> lineUserId, customerName |-> "Amy", phone |-> RegisteredPhone,
     date |-> FormatDate(BookingDate), time |-> "14:00", createdAt |-> k,
     eventId |-> IF linked THEN <<"booking", k>> ELSE <<>>, by |-> k]

RECURSIVE SyncSheetsOfLen(_)
SyncSheetsOfLen(n) ==
    IF n = 0 THEN {<<>>}
    ELSE {Append(sheet, SyncRow(n, u, linked)) :
            sheet \in SyncSheetsOfLen(n - 1), u \in {"", "U1"}, linked \in BOOLEAN}

SyncSheets == UNION {SyncSheetsOfLen(n) : n \in 0..MaxSyncRows}

\* rowsToDelete: the rows whose event id is one of the cancelled ids.
rowsToDelete(sheet, deletedEventIds) ==
    {j \in 1..Len(sheet) : sheet[j].eventId \in deletedEventIds}

\* The sheet after deleteRow on each of `rows`.
RECURSIVE DeleteRows(_, _)
DeleteRows(sheet, rows) ==
    IF sheet = <<>> THEN <<>>
    ELSE LET front == DeleteRows(SubSeq(sheet, 1, Len(sheet) - 1), rows)
         IN IF Len(sheet) \in rows THEN front ELSE Append(front, sheet[Len(sheet)])

SyncIdle ==
    /\ sPc = "done"
    /\ sCancelled = {}
    /\ sDeleted = 0

SyncInit ==
    /\ sPc = "idle"
    /\ sCancelled = {}
    /\ sDeleted = 0

\* syncCalendarDeletions up to the call of processCalendarChanges: the script
\* lock is busy, the calendar is not configured, the fetch throws, or the
\* changed events are fetched; processCalendarChanges returns at once when
\* none of them is cancelled.
SyncCalendarDeletions ==
    /\ sPc = "idle"
    /\ \E outcome \in {"busy", "unconfigured", "failed", "fetched"} :
         \E deletedEventIds \in SUBSET SyncEventIds :
            /\ outcome = "fetched" \/ deletedEventIds = {}
            /\ sCancelled' = deletedEventIds
            /\ sPc' = IF deletedEventIds = {} THEN "done" ELSE "deleting"
    /\ UNCHANGED sDeleted
    /\ UNCHANGED commitVars
    /\ UNCHANGED outsideSync

\* processCalendarChanges, the loop over the sheets: the matching rows are
\* deleted from the bottom up; a deleteRow that throws is logged and skipped.
ProcessCalendarChanges ==
    /\ sPc = "deleting"
    /\ \E failing \in SUBSET rowsToDelete(bookingSheet, sCancelled) :
         LET deleted == rowsToDelete(bookingSheet, sCancelled) \ failing
         IN /\ bookingSheet' = DeleteRows(bookingSheet, deleted)
            /\ sDeleted' = Cardinality(deleted)
    /\ sPc' = "finishing"
    /\ UNCHANGED sCancelled
    /\ UNCHANGED <<pc, booking, result, lockHolder, customerSheet, calendar,
                   customerIndexMap, bookingIndexMap, clock, trace>>
    /\ UNCHANGED outsideSync

\* An end of the sync that leaves the booking index as it is.
FinishCalendarChanges_KeepsCache ==
    /\ sPc = "finishing"
    /\ sPc' = "done"
    /\ sCancelled' = {}
    /\ UNCHANGED sDeleted
    /\ UNCHANGED commitVars
    /\ UNCHANGED outsideSync

\* processCalendarChanges, lines 602-607, and the finally block of the sync.
FinishCalendarChanges ==
    /\ sPc = "finishing"
    /\ bookingIndexMap' = IF sDeleted > 0 THEN NoIndex ELSE bookingIndexMap
    /\ sPc' = "done"
    /\ sCancelled' = {}                   \* the function's locals are gone
    /\ UNCHANGED sDeleted
    /\ UNCHANGED <<pc, booking, result, lockHolder, bookingSheet, customerSheet, calendar,
                   customerIndexMap, clock, trace>>
    /\ UNCHANGED outsideSync

\* ============================================================== cache layer
\* The module-level cache variables of cacheService.gs, each with its
\* timestamp: PROPERTIES_CONFIG_CACHE / CONFIG_CACHE_TIMESTAMP ("config"),
\* SPREADSHEET_CACHE / SPREADSHEET_CACHE_TIME ("spreadsheet"), customerDataCache
\* / cacheTimestamp ("customerData"), customerIndexMap / indexCacheTime
\* ("customerIndex") and bookingIndexMap / bookingCacheTime ("bookingIndex").
\* What a cache holds is the generation of the script properties and of the
\* spreadsheet it was built from.
MaxGenerations == 1     \* changes of the data behind the caches

CACHE_DURATION == 5 * 60 * 1000
CONFIG_CACHE_DURATION == 5 * 60 * 1000
SPREADSHEET_CACHE_DURATION == 60 * 1000

CacheNames == {"config", "spreadsheet", "customerData", "customerIndex", "bookingIndex"}

\* The instants at which the script runs, in milliseconds: between two of them
\* lies less than, exactly, or more than each of the two durations.
CacheInstants ==
    {1, 1 + SPREADSHEET_CACHE_DURATION, 1 + CACHE_DURATION, 2 + CACHE_DURATION}

\* null / null.
NoEntry == [stored |-> FALSE, value |-> 0, time |-> 0]
Entry(value, time) == [stored |-> TRUE, value |-> value, time |-> time]

\* The hit tests.  Config, spreadsheet and customer data: the entry is used
\* while now - timestamp < duration.  The two indexes: the entry is rebuilt
\* when now - timestamp > duration.
FreshWithin(entry, now, duration) ==
    entry.stored /\ entry.time # 0 /\ now - entry.time < duration

FreshUpTo(entry, now, duration) ==
    entry.stored /\ entry.time # 0 /\ ~ (now - entry.time > duration)

IsHit(name, entry, now) ==
    IF name = "config" THEN FreshWithin(entry, now, CONFIG_CACHE_DURATION)
    ELSE IF name = "spreadsheet" THEN FreshWithin(entry, now, SPREADSHEET_CACHE_DURATION)
    ELSE IF name = "customerData" THEN FreshWithin(entry, now, CACHE_DURATION)
    ELSE FreshUpTo(entry, now, CACHE_DURATION)

\* getCachedSpreadsheet, called by getSheet and getAllBookingSheetNames: the
\* spreadsheet entry after the call.
SpreadsheetAfterGet(entry, now, generation) ==
    IF IsHit("spreadsheet", entry, now) THEN entry ELSE Entry(generation, now)

NoRead == [cache |-> "none", hit |-> FALSE]

CacheIdle ==
    /\ caches = [name \in CacheNames |-> NoEntry]
    /\ backing = 0
    /\ cacheNow = 1
    /\ lastRead = NoRead

CacheInit == CacheIdle

\* Time passes between two executions.
Tick ==
    /\ \E later \in CacheInstants : later > cacheNow /\ cacheNow' = later
    /\ UNCHANGED <<caches, backing, lastRead>>
    /\ UNCHANGED outsideCache

\* The script properties or the sheets are changed behind the caches.
SourceChanges ==
    /\ backing < MaxGenerations
    /\ backing' = backing + 1
    /\ UNCHANGED <<caches, cacheNow, lastRead>>
    /\ UNCHANGED outsideCache

\* getCachedConfig; PropertiesService may throw, and then a default
\* configuration is returned and nothing is stored.
GetCachedConfig ==
    /\ \E propertiesThrow \in BOOLEAN :
         IF IsHit("config", caches["config"], cacheNow)
           THEN /\ lastRead' = [cache |-> "config", hit |-> TRUE]
                /\ UNCHANGED caches
           ELSE /\ lastRead' = [cache |-> "config", hit |-> FALSE]
                /\ caches' = IF propertiesThrow THEN caches
                             ELSE [caches EXCEPT !["config"] = Entry(backing, cacheNow)]
    /\ UNCHANGED <<backing, cacheNow>>
    /\ UNCHANGED outsideCache

\* getCachedSpreadsheet.
GetCachedSpreadsheet ==
    /\ lastRead' = [cache |-> "spreadsheet",
                    hit |-> IsHit("spreadsheet", caches["spreadsheet"], cacheNow)]
    /\ caches' = [caches EXCEPT !["spreadsheet"] = SpreadsheetAfterGet(@, cacheNow, backing)]
    /\ UNCHANGED <<backing, cacheNow>>
    /\ UNCHANGED outsideCache

\* getCachedCustomerData; a miss reads the sheet through getSheet.
GetCachedCustomerData ==
    /\ IF IsHit("customerData", caches["customerData"], cacheNow)
         THEN /\ lastRead' = [cache |-> "customerData", hit |-> TRUE]
              /\ UNCHANGED caches
         ELSE /\ lastRead' = [cache |-> "customerData", hit |-> FALSE]
              /\ caches' = [caches EXCEPT
                    !["spreadsheet"] = SpreadsheetAfterGet(@, cacheNow, backing),
                    !["customerData"] = Entry(backing, cacheNow)]
    /\ UNCHANGED <<backing, cacheNow>>
    /\ UNCHANGED outsideCache

\* findCustomerByLineUserId / findCustomerByPhone; a miss runs
\* buildCustomerIndex, which reads the sheet through getSheet.
FindCustomer ==
    /\ IF IsHit("customerIndex", caches["customerIndex"], cacheNow)
         THEN /\ lastRead' = [cache |-> "customerIndex", hit |-> TRUE]
              /\ UNCHANGED caches
         ELSE /\ lastRead' = [cache |-> "customerIndex", hit |-> FALSE]
              /\ caches' = [caches EXCEPT
                    !["spreadsheet"] = SpreadsheetAfterGet(@, cacheNow, backing),
                    !["customerIndex"] = Entry(backing, cacheNow)]
    /\ UNCHANGED <<backing, cacheNow>>
    /\ UNCHANGED outsideCache

\* getBookingsFromIndex; a miss runs buildBookingIndex, which reads the sheets
\* through getAllBookingSheetNames and getSheet.
GetBookingsFromIndex ==
    /\ IF IsHit("bookingIndex", caches["bookingIndex"], cacheNow)
         THEN /\ lastRead' = [cache |-> "bookingIndex", hit |-> TRUE]
              /\ UNCHANGED caches
         ELSE /\ lastRead' = [cache |-> "bookingIndex", hit |-> FALSE]
              /\ caches' = [caches EXCEPT
                    !["spreadsheet"] = SpreadsheetAfterGet(@, cacheNow, backing),
                    !["bookingIndex"] = Entry(backing, cacheNow)]
    /\ UNCHANGED <<backing, cacheNow>>
    /\ UNCHANGED outsideCache

\* The entries a clear function sets to null.
Cleared(clear) ==
    IF clear = "clearConfigCache" THEN {"config"}
    ELSE IF clear = "clearSpreadsheetCache" THEN {"spreadsheet"}
    ELSE IF clear = "clearCustomerCache" THEN {"customerData", "customerIndex"}
    ELSE {"bookingIndex"}

ClearFunctions ==
    {"clearConfigCache", "clearSpreadsheetCache", "clearCustomerCache", "clearBookingCache"}

\* A clear function that empties every cache.
ClearCache_Everything(clear) == [name \in CacheNames |-> NoEntry]

\* clearConfigCache, clearSpreadsheetCache, clearCustomerCache,
\* clearBookingCache: the caches after the call.
ClearCache(clear) ==
    [name \in CacheNames |-> IF name \in Cleared(clear) THEN NoEntry ELSE caches[name]]

Clear ==
    /\ \E clear \in ClearFunctions :
         /\ caches' = ClearCache(clear)
         /\ lastRead' = [cache |-> clear, hit |-> FALSE]
    /\ UNCHANGED <<backing, cacheNow>>
    /\ UNCHANGED outsideCache

\* =================================================================== client
\* The click handler of the confirm button (initConfirmButton) and
\* ApiService.sendRequest.  A request goes out by JSONP first and, when that
\* fails, by POST; a transport either brings the backend's answer back, or
\* loses it after the backend handled the request ("lost": JSONP timeout, a
\* failed or non-OK response), or never reaches the backend ("blocked").  When
\* both fail the answer comes from handleLocalFallback.
TransportOutcomes == {"answered", "lost", "blocked"}

\* The backend's answers the handler distinguishes: success with the fact
\* asked for (the slot is offered, the slot is free, the booking is
\* committed), success without it, or success: false.
BackendAnswers ==
    {[success |-> TRUE, yes |-> TRUE], [success |-> TRUE, yes |-> FALSE],
     [success |-> FALSE, yes |-> FALSE]}

\* handleLocalFallback(data): saveBooking is stored locally and answered with
\* success: true; the two slot queries fall to the default branch.
handleLocalFallback(action) ==
    IF action = "saveBooking"
      THEN [success |-> TRUE, yes |-> TRUE, isLocal |-> TRUE]
      ELSE [success |-> FALSE, yes |-> FALSE, isLocal |-> TRUE]

\* ApiService.sendRequest(data): what may become of one request.  `handled`
\* lists the backend's answers to the copies of the request that reached it.
SendRequest(action) ==
    {[action |-> action, jsonp |-> "answered", post |-> "unused",
      handled |-> <<a>>, result |-> a @@ [isLocal |-> FALSE]] : a \in BackendAnswers}
    \cup
    {[action |-> action, jsonp |-> j, post |-> "answered",
      handled |-> (IF j = "lost" THEN <<first>> ELSE <<>>) \o <<a>>,
      result |-> a @@ [isLocal |-> FALSE]] :
        j \in {"lost", "blocked"}, first \in BackendAnswers, a \in BackendAnswers}
    \cup
    {[action |-> action, jsonp |-> j, post |-> q,
      handled |-> (IF j = "lost" THEN <<first>> ELSE <<>>)
                    \o (IF q = "lost" THEN <<second>> ELSE <<>>),
      result |-> handleLocalFallback(action)] :
        j \in {"lost", "blocked"}, q \in {"lost", "blocked"},
        first \in BackendAnswers, second \in BackendAnswers}

ClientBookings == {[date |-> b.date, time |-> b.time] : b \in ValidPayloads}

ClientIdle ==
    /\ cPc = "Done"
    /\ cBooking = CHOOSE b \in ClientBookings : TRUE
    /\ cSent = <<>>
    /\ cCommits = <<>>
    /\ cLocal = 0
    /\ cDialog = "none"

ClientInit ==
    /\ cPc = "Idle"
    /\ cBooking \in ClientBookings
    /\ cSent = <<>>
    /\ cCommits = <<>>
    /\ cLocal = 0
    /\ cDialog = "none"

\* The click: checkTimeSlotBeforeBooking asks for the open slots of the date.
\* Without an answer of success, or with the time not among the open slots,
\* the user gets the alert and the flow ends.
CheckOpenSlots ==
    /\ cPc = "Idle"
    /\ \E sent \in SendRequest("getAvailableTimeSlots") :
         /\ cSent' = Append(cSent, sent)
         /\ IF sent.result.success /\ sent.result.yes
              THEN cPc' = "CheckingBusy" /\ UNCHANGED cDialog
              ELSE cPc' = "Done" /\ cDialog' = "alert"
    /\ UNCHANGED <<cBooking, cCommits, cLocal>>
    /\ UNCHANGED outsideClient

\* checkTimeSlotBeforeBooking, second half: the slot must be reported free.
CheckSlotFree ==
    /\ cPc = "CheckingBusy"
    /\ \E sent \in SendRequest("checkTimeSlotAvailability") :
         /\ cSent' = Append(cSent, sent)
         /\ IF sent.result.success /\ sent.result.yes
              THEN cPc' = "Saving" /\ UNCHANGED cDialog
              ELSE cPc' = "Done" /\ cDialog' = "alert"
    /\ UNCHANGED <<cBooking, cCommits, cLocal>>
    /\ UNCHANGED outsideClient

\* ApiService.saveBooking(bookingData) and the dialog that follows: the
\* success modal when result.success, the alert otherwise.
SaveBooking ==
    /\ cPc = "Saving"
    /\ \E sent \in SendRequest("saveBooking") :
         /\ cSent' = Append(cSent, sent)
         /\ cCommits' = [i \in 1..Len(sent.handled) |-> sent.handled[i].success]
         /\ cLocal' = IF sent.result.isLocal THEN cLocal + 1 ELSE cLocal
         /\ cDialog' = IF sent.result.success THEN "success" ELSE "alert"
    /\ cPc' = "Done"
    /\ UNCHANGED cBooking
    /\ UNCHANGED outsideClient

\* ========================================================== specifications
\* The booking commit protocol with the index caches and their readers.
Next ==
    \/ \E p \in Requests : Submit(p)
    \/ \E p \in Requests : AcquireLock(p)
    \/ \E p \in Requests : LockTimeout(p)
    \/ \E p \in Requests : Validate(p)
    \/ \E p \in Requests : Persist(p)
    \/ \E p \in Requests : NotifyAndLink(p)
    \/ GetCustomer
    \/ GetCustomerBookings

Init == CommitInit /\ MatcherIdle /\ SourceIdle /\ ExtractIdle /\ BatchIdle /\ DispatchIdle /\ ClockIdle /\ RegisterIdle /\ SyncIdle /\ CacheIdle /\ ClientIdle

Spec == Init /\ [][Next]_vars

\* The availability matcher on every calendar and slot of the bounded sets.
MatcherNext == CheckTimeSlot \/ BatchCheckTimeSlot

InitMatcher == CommitIdle /\ MatcherInit /\ SourceIdle /\ ExtractIdle /\ BatchIdle /\ DispatchIdle /\ ClockIdle /\ RegisterIdle /\ SyncIdle /\ CacheIdle /\ ClientIdle

SpecMatcher == InitMatcher /\ [][MatcherNext]_vars

SourceNext ==
    \/ GetEventsWithSmartPagination
    \/ FetchPage
    \/ FetchDirectly
    \/ FallbackToCalendarApp

InitSource == CommitIdle /\ MatcherIdle /\ SourceInit /\ ExtractIdle /\ BatchIdle /\ DispatchIdle /\ ClockIdle /\ RegisterIdle /\ SyncIdle /\ CacheIdle /\ ClientIdle

SpecSource == InitSource /\ [][SourceNext]_vars

\* The time-slot extractor on every title and every day's events of the
\* bounded sets.
ExtractNext ==
    \/ ExtractTimeSlotsFromTitle
    \/ ExtractTimeSlotsFromEvents
    \/ GetAvailableTimeSlotsFromCalendar

InitExtract == CommitIdle /\ MatcherIdle /\ SourceIdle /\ ExtractInit /\ BatchIdle /\ DispatchIdle /\ ClockIdle /\ RegisterIdle /\ SyncIdle /\ CacheIdle /\ ClientIdle

SpecExtract == InitExtract /\ [][ExtractNext]_vars

\* The batch query on every pair of date strings and every calendar of the
\* bounded sets.
BatchNext == BatchCheckTimeSlotAvailability

InitBatch == CommitIdle /\ MatcherIdle /\ SourceIdle /\ ExtractIdle /\ BatchInit /\ DispatchIdle /\ ClockIdle /\ RegisterIdle /\ SyncIdle /\ CacheIdle /\ ClientIdle

SpecBatch == InitBatch /\ [][BatchNext]_vars

\* The dispatcher on every request of the bounded sets.
DispatchNext == HandleRequest

InitDispatch ==
    CommitIdle /\ MatcherIdle /\ SourceIdle /\ ExtractIdle /\ BatchIdle /\ DispatchInit /\ ClockIdle /\ RegisterIdle /\ SyncIdle /\ CacheIdle /\ ClientIdle

SpecDispatch == InitDispatch /\ [][DispatchNext]_vars

\* Concurrent registrations on a sheet that holds one customer.
RegisterNext == \E r \in Registrants : SaveCustomerLookup(r) \/ SaveCustomerWrite(r)

InitRegister ==
    CommitInit /\ MatcherIdle /\ SourceIdle /\ ExtractIdle /\ BatchIdle /\ DispatchIdle
               /\ ClockIdle /\ RegisterInit /\ SyncIdle /\ CacheIdle /\ ClientIdle

SpecRegister == InitRegister /\ [][RegisterNext]_vars

\* One run of the deletion sync on every sheet of SyncSheets, with readers of
\* the booking index before, during and after it.
SyncNext ==
    \/ SyncCalendarDeletions
    \/ ProcessCalendarChanges
    \/ FinishCalendarChanges
    \/ GetCustomerBookings

InitSync ==
    /\ pc = [p \in Requests |-> "Idle"]
    /\ booking = [p \in Requests |-> CHOOSE b \in ValidPayloads : TRUE]
    /\ result = [p \in Requests |-> NoResult]
    /\ lockHolder = 0
    /\ bookingSheet \in SyncSheets
    /\ customerSheet = <<>>
    /\ calendar = {}
    /\ customerIndexMap = NoIndex
    /\ bookingIndexMap = NoIndex
    /\ clock = 0
    /\ trace = [p \in Requests |-> NoTrace]
    /\ MatcherIdle /\ SourceIdle /\ ExtractIdle /\ BatchIdle /\ DispatchIdle
    /\ ClockIdle /\ RegisterIdle /\ SyncInit /\ CacheIdle /\ ClientIdle

SpecSync == InitSync /\ [][SyncNext]_vars

\* The writers of the store together: the commit protocol, one registration
\* of a new customer and one run of the deletion sync.
StoreNext ==
    \/ \E p \in Requests : Submit(p)
    \/ \E p \in Requests : AcquireLock(p)
    \/ \E p \in Requests : LockTimeout(p)
    \/ \E p \in Requests : Validate(p)
    \/ \E p \in Requests : Persist(p)
    \/ \E p \in Requests : NotifyAndLink(p)
    \/ RegisterNext
    \/ SyncCalendarDeletions
    \/ ProcessCalendarChanges
    \/ FinishCalendarChanges

InitStore ==
    /\ CommitInit
    /\ MatcherIdle /\ SourceIdle /\ ExtractIdle /\ BatchIdle /\ DispatchIdle /\ ClockIdle
    /\ rPc = [r \in Registrants |-> IF r = 1 THEN "Idle" ELSE "Done"]
    /\ rCustomer = [r \in Registrants |->
                       [lineUserId |-> "U2", name |-> "Bea", phone |-> UnknownPhone]]
    /\ rFound = [r \in Registrants |-> NotLooked]
    /\ rResult = [r \in Registrants |-> NoRegistration]
    /\ SyncInit /\ CacheIdle /\ ClientIdle

SpecStore == InitStore /\ [][StoreNext]_vars

\* The cache layer: reads and clears at the instants of CacheInstants, with the
\* data behind the caches changing.
CacheNext ==
    \/ Tick
    \/ SourceChanges
    \/ GetCachedConfig
    \/ GetCachedSpreadsheet
    \/ GetCachedCustomerData
    \/ FindCustomer
    \/ GetBookingsFromIndex
    \/ Clear

InitCache ==
    CommitIdle /\ MatcherIdle /\ SourceIdle /\ ExtractIdle /\ BatchIdle /\ DispatchIdle
               /\ ClockIdle /\ RegisterIdle /\ SyncIdle /\ CacheInit /\ ClientIdle

SpecCache == InitCache /\ [][CacheNext]_vars

\* The commit protocol beside a source calendar: the day the extraction is
\* asked for is the booking date, and the slot query of the source calendar
\* may run at any time.
OfferedNext ==
    \/ \E p \in Requests : Submit(p)
    \/ \E p \in Requests : AcquireLock(p)
    \/ \E p \in Requests : LockTimeout(p)
    \/ \E p \in Requests : Validate(p)
    \/ \E p \in Requests : Persist(p)
    \/ \E p \in Requests : NotifyAndLink(p)
    \/ GetAvailableTimeSlotsFromCalendar

InitOffered ==
    /\ CommitInit
    /\ MatcherIdle /\ SourceIdle /\ BatchIdle /\ DispatchIdle
    /\ ClockIdle /\ RegisterIdle /\ SyncIdle /\ CacheIdle
    /\ xTitle = <<>>
    /\ xStart = NoStartTime
    /\ xEvents \in EventListsUpTo(1) \ {<<>>}
    /\ xResult = NoExtract /\ ClientIdle

SpecOffered == InitOffered /\ [][OfferedNext]_vars

\* The client's confirmation flow with every fate of its requests.
ClientNext == CheckOpenSlots \/ CheckSlotFree \/ SaveBooking

InitClient ==
    CommitIdle /\ MatcherIdle /\ SourceIdle /\ ExtractIdle /\ BatchIdle /\ DispatchIdle
               /\ ClockIdle /\ RegisterIdle /\ SyncIdle /\ CacheIdle /\ ClientInit

SpecClient == InitClient /\ [][ClientNext]_vars

\* The commit protocol at every instant of CommitInstants.
InitAdvance ==
    CommitInit /\ MatcherIdle /\ SourceIdle /\ ExtractIdle /\ BatchIdle /\ DispatchIdle
               /\ ClockInit /\ RegisterIdle /\ SyncIdle /\ CacheIdle /\ ClientIdle

SpecAdvance == InitAdvance /\ [][Next]_vars

\* =========================================================== claims C9, C10
\* The slot window [s, s + d) of the matcher check, by arithmetic on instants.
QuerySlotStart ==
    mQuery.day * SecondsPerDay + mQuery.slot[1] * SecondsPerHour + mQuery.slot[2] * 60
QuerySlotEnd == QuerySlotStart + defaultDuration * SecondsPerHour

Overlaps(e) == QuerySlotStart < getEndTime(e) /\ getStartTime(e) < QuerySlotEnd

\* C9: every event [a, b) given to the matcher is counted as a conflict with
\* the slot [s, s + d) if and only if s < b and a < s + d.
C9_ConflictIffOverlap ==
    mResult.path # "none" =>
        \A e \in mGiven : (e \in mResult.status.conflictingEvents) <=> Overlaps(e)

\* C9, narrowed to the events that start on the queried day and to the slots
\* whose end is still a valid time of that day's date string.
C9_ConflictIffOverlapSameDay ==
    (mResult.path # "none" /\ SlotEnd(mQuery.day, mQuery.slot) # NaN) =>
        \A e \in mGiven :
            getTaipeiDateString(getStartTime(e)) = mQuery.day =>
                ((e \in mResult.status.conflictingEvents) <=> Overlaps(e))

\* C10: an all-day event of the booking calendar makes every slot of every
\* day it covers unavailable.
C10_AllDayBlocksEverySlot ==
    mResult.path # "none" =>
        \A e \in mEvents :
            (e.allDay /\ mQuery.day \in DaysCovered(e)) => ~ mResult.status.available

\* C10, narrowed to the day the all-day event starts on and to the slots whose
\* end is still a valid time of that day's date string.
C10_AllDayBlocksFirstDay ==
    (mResult.path # "none" /\ SlotEnd(mQuery.day, mQuery.slot) # NaN) =>
        \A e \in mEvents :
            (e.allDay /\ mQuery.day = e.start) => ~ mResult.status.available

\* ========================================================= claims C1 .. C8
PastLockAcquiring == {"Validating", "Persisting", "NotifyingAndLinking"}
RowsBy(p) == {j \in 1..Len(bookingSheet) : bookingSheet[j].by = p}
Succeeded(p) == result[p].kind = "returned" /\ result[p].success
SameSlot(p, q) == booking[p].date = booking[q].date /\ booking[p].time = booking[q].time

\* C1: no two commit attempts for the same (date, time) both return success.
C1_NoTwoSucceedForOneSlot ==
    \A p, q \in Requests :
        (p # q /\ Succeeded(p) /\ Succeeded(q)) => ~ SameSlot(p, q)

\* C2: at most one commit is past LockAcquiring (in Validating, Persisting or
\* NotifyingAndLinking) at any moment.
C2_OneCommitPastLockAcquiring ==
    \A p, q \in Requests :
        (pc[p] \in PastLockAcquiring /\ pc[q] \in PastLockAcquiring) => p = q

\* C2 witness: one commit is persisting while another waits for the lock.
C2_Witness ==
    \E p, q \in Requests : pc[p] = "Persisting" /\ pc[q] = "LockAcquiring"

\* C3: a commit that is not between acquiring the lock and returning does not
\* hold it; in particular a finished commit, on whatever branch, has released it.
C3_LockReleasedOnEveryBranch ==
    \A p \in Requests : pc[p] \notin PastLockAcquiring => lockHolder # p

\* C3 witness: one commit threw after it had appended its row, another
\* returned success with the calendar and LINE steps failed, and the lock is free.
C3_Witness ==
    /\ lockHolder = 0
    /\ \E p, q \in Requests :
        /\ pc[p] = "Released" /\ pc[q] = "Released"
        /\ result[p].kind = "thrown" /\ trace[p].row > 0
        /\ Succeeded(q) /\ trace[q].link = "failed" /\ trace[q].line = "failed"

\* C4: a commit is in or past Persisting only after a slot check made during
\* that commit, while it held the lock, that reported the slot available on
\* the events it fetched; while it is in Persisting the fetched events are
\* still the booking calendar's events of the window; and a commit whose check
\* reported the slot unavailable returned a conflict error with the conflict
\* details and appended no booking record.
C4_PersistOnlyAfterFreshCheck ==
    \A p \in Requests :
        LET day == DayOf(booking[p].date)
            slot == ParseTime(booking[p].time)
        IN /\ (pc[p] \in {"Persisting", "NotifyingAndLinking"} \/ RowsBy(p) # {} \/ Succeeded(p)) =>
                /\ trace[p].fetch # "none"
                /\ trace[p].lockHeld
                /\ trace[p].available
                /\ checkSingleTimeSlotAvailability(trace[p].given, slot, day).available
           /\ (pc[p] = "Persisting" /\ trace[p].fetch = "listed") =>
                trace[p].given = EventsList(calendar, getOptimizedQueryRange(day))
           /\ (trace[p].fetch # "none" /\ ~ trace[p].available) =>
                /\ pc[p] = "Released"
                /\ result[p].kind = "returned" /\ ~ result[p].success
                /\ result[p].error = "TIME_SLOT_CONFLICT"
                /\ result[p].conflictDetails.conflictCount > 0
                /\ result[p].conflictDetails.conflictingEvents # {}
                /\ RowsBy(p) = {}

\* C4 witness: one commit succeeded and a later one for the same slot was
\* turned away by the check.
C4_Witness ==
    \E p, q \in Requests :
        /\ Succeeded(p) /\ RowsBy(p) # {}
        /\ pc[q] = "Released" /\ result[q].error = "TIME_SLOT_CONFLICT"
        /\ SameSlot(p, q)

\* The commit returned the lock-timeout error.
LockTimedOut(p) == result[p].kind = "returned" /\ result[p].error = "LOCK_TIMEOUT"

\* C5: a commit that fails to get the lock returns LOCK_TIMEOUT (success =
\* false) having validated nothing, fetched nothing and written nothing, and
\* the step that returns it changes neither sheet, nor the booking calendar,
\* nor a cache.
C5_LockTimeoutChangesNothing ==
    /\ [](\A p \in Requests :
            LockTimedOut(p) =>
                /\ ~ result[p].success
                /\ pc[p] = "Released"
                /\ trace[p] = NoTrace
                /\ RowsBy(p) = {})
    /\ [][\A p \in Requests :
            (pc[p] = "LockAcquiring" /\ pc'[p] = "Released") =>
                /\ LockTimedOut(p)'
                /\ UNCHANGED <<bookingSheet, customerSheet, calendar,
                               customerIndexMap, bookingIndexMap, lockHolder, trace>>]_vars

\* C5 witness: a payload that would not pass validation was answered with
\* LOCK_TIMEOUT while the caches were filled.
C5_Witness ==
    \E p \in Requests :
        /\ LockTimedOut(p)
        /\ ~ PayloadValid(booking[p])
        /\ customerIndexMap.cached

\* C6: a commit whose payload misses a required field is rejected before the
\* lock is attempted: it never holds the lock and is never answered with the
\* lock-timeout error.
C6_MissingFieldRejectedBeforeLock ==
    \A p \in Requests :
        (pc[p] # "Idle" /\ MissingRequiredField(booking[p])) =>
            /\ lockHolder # p
            /\ ~ LockTimedOut(p)

\* A step after the row append failed for the commit.
LinkFailed(p) ==
    trace[p].link = "failed" \/ trace[p].email = "failed" \/ trace[p].line = "failed"

\* C7: when the calendar event could not be created, or the e-mail or the
\* LINE notification failed, the commit still returns success and its booking
\* row is still in the sheet.
C7_LinkFailureKeepsBooking ==
    \A p \in Requests :
        LinkFailed(p) =>
            /\ pc[p] = "Released"
            /\ Succeeded(p)
            /\ RowsBy(p) # {}
            /\ \A j \in RowsBy(p) : bookingSheet[j].phone = booking[p].phone
                                      /\ bookingSheet[j].time = booking[p].time

\* C7 witness: the calendar event failed for one commit and the e-mail for
\* another.
C7_Witness ==
    \E p, q \in Requests :
        /\ trace[p].link = "failed" /\ ~ result[p].calendarEvent
        /\ trace[q].email = "failed"

\* The cached booking index, if any, holds the row the commit appended.
BookingIndexReflects(p) ==
    bookingIndexMap.cached =>
        \A j \in RowsBy(p) :
            bookingSheet[j].lineUserId # "" =>
                /\ bookingSheet[j].lineUserId \in DOMAIN bookingIndexMap.map
                /\ \E i \in 1..Len(bookingIndexMap.map[bookingSheet[j].lineUserId]) :
                       bookingIndexMap.map[bookingSheet[j].lineUserId][i].by = p

\* The cached customer index, if any, holds the counters the commit wrote.
CustomerIndexReflects(p) ==
    LET k == <<"phone", booking[p].phone>>
    IN (customerIndexMap.cached /\ k \in DOMAIN customerIndexMap.map) =>
          customerIndexMap.map[k].customerData.totalBookings >= trace[p].total

\* C8: once a commit has returned success, the booking index is either empty
\* or holds the row the commit appended, and the customer index is either
\* empty or holds the counters the commit wrote.
C8_CachesInvalidAfterCommit ==
    \A p \in Requests :
        Succeeded(p) => BookingIndexReflects(p) /\ CustomerIndexReflects(p)

\* ======================================================= claims C11 .. C20
\* C11: the paginated query makes at most 20 page fetches, whatever the
\* upstream answers.
C11_AtMostTwentyPageFetches == listCalls <= maxPageCount

\* The primary transport gave no page and the fallback gave no events.
BothTransportsFailed ==
    /\ transports.primary = "failed"
    /\ transports.fallback \in {"untried", "notfound", "failed"}

\* C12: getEvents never throws: once it is done it has returned a list, and
\* the list is empty when both transports failed.
C12_GetEventsNeverThrows ==
    /\ srcResult.kind # "thrown"
    /\ srcPc = "done" =>
          /\ srcResult.kind = "returned"
          /\ BothTransportsFailed => srcResult.events = 0

\* C12 witness: the direct query threw, CalendarApp threw as well, and
\* getEvents returned the empty list.
C12_Witness ==
    /\ srcPc = "done"
    /\ transports = [primary |-> "failed", fallback |-> "failed"]
    /\ srcResult = [kind |-> "returned", events |-> 0]

\* The HH:MM strings of the slots extracted from the title.
ExtractedTimes == {slot.time : slot \in xResult.slots}

\* C17: with an afternoon or an evening marker in the title every parsed hour
\* below 12 yields the slot of hour + 12, and with a morning marker a parsed
\* hour 12 yields the slot of hour 0.
C17_MarkersShiftTheHour ==
    xResult.kind = "title" =>
        \A m \in AllMatches(xTitle) :
            /\ ((Includes(xTitle, "pm") \/ Includes(xTitle, "eve")) /\ m.hour < 12) =>
                   <<m.hour + 12, m.minute>> \in ExtractedTimes
            /\ (Includes(xTitle, "am") /\ m.hour = 12) =>
                   <<0, m.minute>> \in ExtractedTimes

\* C18: the extraction returns; when no pattern matches the title the slots
\* are exactly the one slot of the event's start time (none when no start
\* time is given), and when a pattern matches every slot is a matched time.
C18_FallbackOnlyWithoutMatch ==
    xResult.kind = "title" =>
        IF AllMatches(xTitle) = {}
          THEN /\ xStart # NoStartTime =>
                     /\ Cardinality(xResult.slots) = 1
                     /\ ExtractedTimes = {xStart}
               /\ xStart = NoStartTime => xResult.slots = {}
          ELSE /\ Cardinality(xResult.slots) = Cardinality(ExtractedTimes)
               /\ \A time \in ExtractedTimes :
                      \E m \in AllMatches(xTitle) :
                          time[2] = m.minute /\ time[1] \in {m.hour, m.hour + 12, 0}

\* C18 witness: a title without a time and an event starting at 09:00 gave
\* the one slot 09:00.
C18_Witness ==
    /\ xResult.kind = "title"
    /\ AllMatches(xTitle) = {}
    /\ Len(xTitle) > 0
    /\ xStart = <<9, 0>>
    /\ ExtractedTimes = {<<9, 0>>}

\* The first event of the queried day, in event order, whose title or start
\* time gives the HH:MM string `time`.
FirstEventWith(events, time) ==
    LET day == EventsOfDay(events)
        i == CHOOSE i \in 1..Len(day) :
                /\ time \in foundTimes(day[i].title, day[i].start)
                /\ \A j \in 1..(i - 1) : time \notin foundTimes(day[j].title, day[j].start)
    IN day[i]

\* C19: the slot list of a day is in strictly ascending HH:MM order, so no
\* HH:MM occurs twice; it holds every time of every event of the day; and the
\* slot kept for a time is the one of the first event giving that time.
C19_DaySlotsUniqueAndSorted ==
    (xResult.kind = "events" \/ (xResult.kind = "calendar" /\ xResult.list # <<>>)) =>
        LET list == xResult.list
            day == EventsOfDay(xEvents)
        IN /\ \A i \in 1..(Len(list) - 1) : TimeLess(list[i].time, list[i + 1].time)
           /\ \A i \in 1..Len(day) :
                  \A time \in foundTimes(day[i].title, day[i].start) :
                      \E k \in 1..Len(list) : list[k].time = time
           /\ \A k \in 1..Len(list) :
                  list[k].originalTitle = FirstEventWith(xEvents, list[k].time).title

\* C19 witness: two events of the day with different titles gave the same
\* time, a third gave another, and the list holds two slots.
C19_Witness ==
    /\ xResult.kind = "events"
    /\ Len(xResult.list) = 2
    /\ \E i, j \in 1..Len(xEvents) :
          /\ i < j
          /\ xEvents[i].day = QueryDay /\ xEvents[j].day = QueryDay
          /\ xEvents[i].title # xEvents[j].title
          /\ foundTimes(xEvents[i].title, xEvents[i].start)
                = foundTimes(xEvents[j].title, xEvents[j].start)

\* The events each getEvents call of the batch query handed back.
BatchTimeSlotsEvents ==
    BatchGetEvents(bSource, ParseDate(bStart), ParseDate(bEnd), bEnv.timeSlots)
BatchBookingFetched ==
    BatchGetEvents(bBooking, ParseDate(bStart), ParseDate(bEnd), bEnv.booking)

\* C13: with both calendars configured, a batch query over a valid range has
\* made exactly two getEvents calls, the source calendar's and the booking
\* calendar's, however many days the range has.
C13_BatchIssuesTwoFetches ==
    (bResult.kind = "returned" /\ DateError(bStart, bEnd) = "" /\ bEnv.configured) =>
        /\ Len(bFetches) = 2
        /\ {bFetches[i] : i \in 1..Len(bFetches)} = {"timeSlots", "booking"}

\* C13 witness: the one-day range and a range of more than sixty days were
\* each answered after two fetches (here: the long one).
C13_Witness ==
    /\ bResult.kind = "returned" /\ bResult.success
    /\ ParseDate(bEnd) - ParseDate(bStart) > 60
    /\ Cardinality({entry.day : entry \in bResult.data}) > 60
    /\ bFetches = <<"timeSlots", "booking">>

\* C14: a range of more than 62 days (2025-07-01 .. 2025-09-01 has 63) is
\* rejected as too large and no calendar is fetched.
C14_RangeOver62DaysRejected ==
    LET start == ParseDate(bStart)
        end == ParseDate(bEnd)
    IN (bResult.kind = "returned" /\ start # NaN /\ end # NaN /\ start <= end
          /\ Cardinality(start..end) > maxDays) =>
            /\ ~ bResult.success
            /\ bResult.error = "RANGE_TOO_LARGE"
            /\ bFetches = <<>>

\* The date string is not a well-formed YYYY-MM-DD date.
Malformed(date) == ~ dateRegex(date) \/ ParseDate(date) = NaN

\* C15: a batch query with a malformed start or end date returns a date-format
\* error result (success = false, empty data) and fetches no calendar.
C15_MalformedDateRejected ==
    (bResult.kind = "returned" /\ (Malformed(bStart) \/ Malformed(bEnd))) =>
        /\ ~ bResult.success
        /\ bResult.error \in {"DATE_FORMAT", "INVALID_DATE"}
        /\ bResult.data = {}
        /\ bFetches = <<>>

\* C15 witness: an end date with month 13, which the pattern lets through,
\* was rejected as an invalid date.
C15_Witness ==
    /\ bResult.kind = "returned"
    /\ bStart = "2025-07-01" /\ bEnd = "2025-13-01"
    /\ bResult.error = "INVALID_DATE"
    /\ bFetches = <<>>

MutatingActions == {a \in Actions : \E accepted \in BOOLEAN : HandlerWrites(a, accepted) # {}}

\* C20: a request for a mutating action is dispatched to its handler only if it
\* carries a CSRF token; a mutating request without a token is answered with an
\* error and writes nothing to the store or the booking calendar.
C20_MutatingNeedsToken ==
    (dResponse # NoResponse /\ dBody # "unparsable" /\ dAction \in MutatingActions) =>
        /\ dHandler # Null => ~TokenMissing(dToken)
        /\ TokenMissing(dToken) => (~dResponse.success /\ dWrites = {})

\* ======================================================= claims C21 .. C30

\* C26: when the primary calendar API fails entirely for a query (no page and
\* no direct request succeeds), the fallback enumeration API is invoked before
\* the result is returned, in direct mode and in paginated mode alike.
C26_FallbackOnPrimaryFailure ==
    (srcPc = "done" /\ transports.primary = "failed") => transports.fallback # "untried"

\* C27: when the fetch of a page fails, the loop stops and the query returns
\* the events gathered from the pages before it, raising nothing; and a query
\* that has returned fetches no further page.
C27_PageFailureReturnsGathered ==
    [][/\ (srcPc = "paging" /\ transports'.primary # transports.primary
                            /\ transports'.primary \in {"failed", "partial"}) =>
              /\ srcPc' = "done"
              /\ srcResult' = [kind |-> "returned", events |-> allEvents]
              /\ listCalls' = pageCount'
              /\ transports'.fallback = "untried"
       /\ srcPc = "done" => listCalls' = listCalls]_vars

\* C27 witness: a page after the first failed and the query returned the
\* events of the pages before it.
C27_Witness ==
    /\ srcPc = "done"
    /\ transports.primary = "partial"
    /\ listCalls >= 3
    /\ srcResult.kind = "returned"
    /\ srcResult.events >= 1

\* The slot times extracted for one date of a batch from the events fetched.
BatchExtractedTimes(day) ==
    LET slots == extractTimeSlotsFromEvents(InStartOrder(
                     GroupByDate(BatchTimeSlotsEvents, ParseDate(bStart), ParseDate(bEnd), day)))
    IN {slots[i].time : i \in 1..Len(slots)}

\* C28: a successful batch result has exactly one entry for every date of the
\* inclusive range; the entry of a date with no extracted slot is empty, and the
\* entry of any other date has one record for each extracted slot, booked or
\* not, a slot with conflicts being recorded as unavailable.
C28_EmptyDayDistinctFromBookedDay ==
    (bResult.kind = "returned" /\ bResult.success) =>
        /\ {entry.day : entry \in bResult.data} = RangeDays(ParseDate(bStart), ParseDate(bEnd))
        /\ Cardinality(bResult.data) = Cardinality(RangeDays(ParseDate(bStart), ParseDate(bEnd)))
        /\ \A entry \in bResult.data :
              entry.day # bEnv.failure.day =>
                  /\ entry.error = ""
                  /\ {slot.time : slot \in entry.slots} = BatchExtractedTimes(entry.day)
                  /\ Cardinality(entry.slots) = Cardinality(BatchExtractedTimes(entry.day))
                  /\ \A slot \in entry.slots :
                        slot.status.conflictCount > 0 => ~ slot.status.available

\* C28 witness: one date of the result has no slot and an empty entry, another
\* has slots that are all booked and an entry recording each as unavailable.
C28_Witness ==
    /\ bResult.kind = "returned" /\ bResult.success
    /\ bEnv.failure = NoFailure
    /\ \E empty, booked \in bResult.data :
          /\ BatchExtractedTimes(empty.day) = {} /\ empty.slots = {}
          /\ booked.slots # {}
          /\ \A slot \in booked.slots :
                ~ slot.status.available /\ slot.status.conflictCount > 0

\* The period of an hour as specified: morning from 06:00 to 11:59, afternoon
\* from 12:00 to 17:59, evening otherwise.
PeriodOfHour(hour) ==
    IF hour \in 6..11 THEN "morning" ELSE IF hour \in 12..17 THEN "afternoon" ELSE "evening"

\* C29: every extracted slot carries the period label of its own hour, and the
\* label of every two-digit hour is the specified one.
C29_PeriodFollowsHour ==
    /\ \A hour \in 0..99 : period(<<hour, 0>>) = PeriodOfHour(hour)
    /\ xResult.kind = "title" =>
          \A slot \in xResult.slots : slot.period = PeriodOfHour(slot.time[1])
    /\ xResult.kind = "events" =>
          \A i \in 1..Len(xResult.list) :
              xResult.list[i].period = PeriodOfHour(xResult.list[i].time[1])

\* C29 witness: a title gave a slot before 06:00, labelled evening.
C29_Witness ==
    /\ xResult.kind = "title"
    /\ \E slot \in xResult.slots : slot.time[1] < 6 /\ slot.period = "evening"

\* The instant at which the slot asked for by request p starts.
BookedSlotStart(p) ==
    LET slot == ParseTime(booking[p].time)
    IN IsoDate(DayOf(booking[p].date), slot[1], slot[2], 0)

\* C25: no booking is committed for a slot that starts less than three hours
\* after the moment of the commit.
C25_CommittedThreeHoursAhead ==
    \A p \in Requests :
        Succeeded(p) => BookedSlotStart(p) >= currentTime + bookingAdvanceHours * SecondsPerHour

\* C24: after any interleaving of customer registrations the customer sheet
\* never holds two rows with the same non-empty LINE user id.
C24_OneRowPerLineUserId ==
    \A i, j \in 1..Len(customerSheet) :
        (i # j /\ customerSheet[i].lineUserId # "") =>
            customerSheet[i].lineUserId # customerSheet[j].lineUserId

\* The booking rows held by the booking index.
IndexedBookings ==
    UNION {{bookingIndexMap.map[u][i] : i \in 1..Len(bookingIndexMap.map[u])} :
              u \in DOMAIN bookingIndexMap.map}

\* C22: once a deletion sync that removed booking rows has finished, the
\* booking index is either invalidated or rebuilt since: it holds no booking
\* that is no longer in the sheet.
C22_SyncInvalidatesBookingIndex ==
    (sPc = "done" /\ sDeleted > 0 /\ bookingIndexMap.cached) =>
        \A row \in IndexedBookings : \E j \in 1..Len(bookingSheet) : bookingSheet[j] = row

\* C22 witness: the sync removed a row and a read after it rebuilt the index
\* from the rows that remain.
C22_Witness ==
    /\ sPc = "done"
    /\ sDeleted > 0
    /\ bookingIndexMap.cached
    /\ IndexedBookings # {}

\* C21: every step that writes the booking sheet, the customer sheet or the
\* booking calendar is a step of the commit that holds the lock, taken from
\* its Persisting or NotifyingAndLinking state.
C21_WritesOnlyUnderCommitLock ==
    [][(bookingSheet' # bookingSheet \/ customerSheet' # customerSheet \/ calendar' # calendar) =>
          /\ lockHolder # 0
          /\ pc[lockHolder] \in {"Persisting", "NotifyingAndLinking"}
          /\ pc'[lockHolder] # pc[lockHolder]]_vars

\* The time to live of each cache.
Duration(name) ==
    IF name = "config" THEN CONFIG_CACHE_DURATION
    ELSE IF name = "spreadsheet" THEN SPREADSHEET_CACHE_DURATION
    ELSE CACHE_DURATION

\* A read of the config, spreadsheet, customer-index or booking-index cache
\* whose entry was stored a full time to live ago or longer.
ExpiredRead(name) ==
    /\ lastRead' # lastRead
    /\ lastRead'.cache = name
    /\ caches[name].stored
    /\ cacheNow - caches[name].time >= Duration(name)

\* C23: for each of the four caches (config, store handle, customer index,
\* booking index), a read made once the time to live of the entry has elapsed
\* since it was stored is never a hit: it is a miss, as on an empty cache.
C23_ExpiredReadIsMiss ==
    [][\A name \in {"config", "spreadsheet", "customerIndex", "bookingIndex"} :
          ExpiredRead(name) => ~ lastRead'.hit]_vars

\* C30: clearBookingCache sets the booking-index entry to null and leaves the
\* config, spreadsheet and customer entries as they were; clearCustomerCache
\* sets the customer-data and customer-index entries to null and leaves the
\* config, spreadsheet and booking-index entries as they were.
C30_ClearConfinedToNamespace ==
    [][/\ lastRead'.cache = "clearBookingCache" =>
            /\ caches'["bookingIndex"] = NoEntry
            /\ \A name \in CacheNames \ {"bookingIndex"} : caches'[name] = caches[name]
       /\ lastRead'.cache = "clearCustomerCache" =>
            /\ caches'["customerData"] = NoEntry
            /\ caches'["customerIndex"] = NoEntry
            /\ \A name \in CacheNames \ {"customerData", "customerIndex"} :
                  caches'[name] = caches[name]]_vars

\* clearCustomerCache has just run with the config, spreadsheet and
\* booking-index caches filled.
C30_Witness ==
    /\ lastRead.cache = "clearCustomerCache"
    /\ caches["config"].stored
    /\ caches["spreadsheet"].stored
    /\ caches["bookingIndex"].stored

\* ======================================================== claims C31 .. C38
\* The commit of p has ended without reporting success: it returned an error
\* result or it threw.
EndedWithoutSuccess(p) == pc[p] = "Released" /\ ~ Succeeded(p)

\* C31: a commit that does not report success has appended no booking record
\* and changed no customer counter; every booking row was written by a commit
\* that reports success.
C31_FailedCommitWroteNothing ==
    /\ \A p \in Requests : EndedWithoutSuccess(p) => RowsBy(p) = {}
    /\ (\A p \in Requests : pc[p] = "Idle" \/ EndedWithoutSuccess(p)) =>
           \A j \in 1..Len(customerSheet) : customerSheet[j].totalBookings = 0

\* C32: a commit whose fetch of the booking-calendar events failed during
\* Validating (the direct request and CalendarApp both failed) does not
\* succeed.
C32_FetchFailureBlocksCommit ==
    \A p \in Requests : trace[p].fetch = "failed" => ~ Succeeded(p)

\* The times the source calendar offers on the booking date.
OfferedTimes ==
    LET slots == extractTimeSlotsFromEvents(EventsOfDay(xEvents))
    IN {slots[i].time : i \in 1..Len(slots)}

\* C33: every commit that succeeds is for a time the source calendar offers
\* as a slot on the booking date.
C33_CommittedSlotIsOffered ==
    \A p \in Requests : Succeeded(p) => ParseTime(booking[p].time) \in OfferedTimes

\* The answer of the other query path for the same calendar, day and slot.
OtherPathStatus ==
    IF mResult.path = "single"
      THEN checkSingleTimeSlotAvailability(
               bookingsByDate(mEvents, 0, NumDays - 1, mQuery.day), mQuery.slot, mQuery.day)
      ELSE checkTimeSlotsAvailability(mEvents, mQuery.day, mQuery.slot)

\* C34: for every date and slot time and the same booking calendar, the batch
\* query and the single-day query report the same available flag and the same
\* conflict count.
C34_BatchAgreesWithSingle ==
    mResult.path # "none" =>
        /\ mResult.status.available = OtherPathStatus.available
        /\ mResult.status.conflictCount = OtherPathStatus.conflictCount

\* The rows of the booking sheet that carry the id of the calendar event
\* created by the commit of p.
RowsLinkedTo(p) ==
    {j \in 1..Len(bookingSheet) : bookingSheet[j].eventId = BookingEvent(p, booking[p]).id}

\* C35: once a commit has created its calendar event, the event id stands on
\* the booking row that commit appended and on no other row, whatever the
\* deletion sync and the other writers of the store did meanwhile.
C35_EventIdOnOwnRow ==
    \A p \in Requests :
        (pc[p] = "Released" /\ trace[p].link = "ok") => RowsLinkedTo(p) = RowsBy(p)

\* An HH:MM pair that is a wall-clock time.
WallClockTime(time) == time[1] \in 0..23 /\ time[2] \in 0..59

\* C36: every slot the extractor returns, from a title or from the events of
\* a day, has its hour in 0..23 and its minute in 0..59.
C36_SlotsAreWallClockTimes ==
    /\ \A slot \in xResult.slots : WallClockTime(slot.time)
    /\ \A i \in 1..Len(xResult.list) : WallClockTime(xResult.list[i].time)

\* handleSaveCustomer has returned success for a customer it appended.
RegisteredAsNew(r) ==
    rPc[r] = "Done" /\ rResult[r].success /\ ~ rResult[r].isExisting

\* C37: once handleSaveCustomer has returned success for a new customer, a
\* lookup through the customer index, made before the index expires, finds
\* the customer by phone and, when one was given, by LINE user id.
C37_NewCustomerFoundAtOnce ==
    \A r \in Registrants :
        RegisteredAsNew(r) =>
            /\ findCustomerByPhone(customerIndexMap, customerSheet, rCustomer[r].phone) > 0
            /\ rCustomer[r].lineUserId # "" =>
                 findCustomerByLineUserId(customerIndexMap, customerSheet,
                                          rCustomer[r].lineUserId) > 0

\* The saveBooking request of the flow, once it has been sent.
SaveSent == cSent[Len(cSent)]
SaveWasSent == cSent # <<>> /\ SaveSent.action = "saveBooking"

\* C38: the success dialog is shown only if a backend commit of the booking
\* returned success; when neither transport brings an answer to the
\* saveBooking request, the user is not shown a successful booking.
C38_SuccessDialogOnlyAfterBackendSuccess ==
    /\ cDialog = "success" => \E i \in 1..Len(cCommits) : cCommits[i]
    /\ (SaveWasSent /\ SaveSent.jsonp # "answered" /\ SaveSent.post # "answered") =>
           cDialog # "success"

====
